---------------------------- MODULE Spec2Model ----------------------------
(***************************************************************************)
(* The HRON codec (src/src/hron.ts, the AST builder whose source sits in   *)
(* src/install.sh lines 74-243, src/src/translator.ts) as a state machine. *)
(*                                                                         *)
(* The state is the exported singleton `hron`: the builder's two fields    *)
(* `tokens` and `position`, plus a record of the last call made on it (its *)
(* input and its outcome).  One action per public entry point: parse and   *)
(* stringify.  The lexer, the recursive-descent parser, the flattener, the *)
(* reconciler and the two emitters are operators translated from the code. *)
(*                                                                         *)
(* A text is a sequence of one-character strings.  A JavaScript value is a *)
(* tagged record (field k).  chalk is taken at colour level 0, where every *)
(* chalk.<colour>(s) returns s unchanged.                                  *)
(***************************************************************************)
EXTENDS Integers, Sequences, FiniteSets, TLC

VARIABLES
    tokens,     \* HRONASTBuilder.tokens of the singleton
    position,   \* HRONASTBuilder.position of the singleton
    op,         \* the last call: "init", "parse" or "stringify"
    text,       \* the text given to the last parse
    startPos,   \* the value of `position` when the last parse began
    source,     \* "input": the text came from outside; "encode": it is the
                \* string the preceding stringify returned
    value,      \* the value given to the last stringify
    options,    \* the options given to the last stringify
    outcome,    \* what the last call returned or threw
    recon       \* buildObject's cursors as the last parse left them

vars == <<tokens, position, op, text, startPos, source, value, options, outcome, recon>>

---------------------------------------------------------------------------
(* JavaScript values *)

Undef == [k |-> "undef"]
Null == [k |-> "null"]
Str(s) == [k |-> "str", s |-> s]
Bool(b) == [k |-> "bool", b |-> b]
Num(neg, int, frac) == [k |-> "num", nan |-> FALSE, neg |-> neg, int |-> int, frac |-> frac]
NaN == [k |-> "num", nan |-> TRUE, neg |-> FALSE, int |-> 0, frac |-> <<>>]
IntNum(n) == Num(FALSE, n, <<>>)
Arr(items) == [k |-> "arr", items |-> items]
\* fields: a sequence of <<name, value>> pairs in key (insertion) order
Obj(fields) == [k |-> "obj", fields |-> fields]
\* the options object of stringify
Opts(indent, colorize) == [k |-> "opts", indent |-> indent, colorize |-> colorize]

\* what a call returned (ok) or the error it threw (err; n: the count an
\* "Extra values" error reports)
Ok(v) == [ok |-> TRUE, val |-> v, err |-> "", n |-> 0]
Err(kind) == [ok |-> FALSE, val |-> Undef, err |-> kind, n |-> 0]
ErrN(kind, n) == [ok |-> FALSE, val |-> Undef, err |-> kind, n |-> n]

---------------------------------------------------------------------------
(* Strings *)

RECURSIVE Concat(_)
Concat(ss) == IF ss = <<>> THEN <<>> ELSE Head(ss) \o Concat(Tail(ss))

\* Array.prototype.join
RECURSIVE Join(_, _)
Join(ss, sep) ==
    IF ss = <<>> THEN <<>>
    ELSE IF Len(ss) = 1 THEN ss[1]
    ELSE ss[1] \o sep \o Join(Tail(ss), sep)

\* String.prototype.slice(start, end) with its clamping of both indices
JsSlice(s, start, end) ==
    LET len == Len(s)
        from == IF start < 0 THEN (IF len + start < 0 THEN 0 ELSE len + start)
                ELSE IF start > len THEN len ELSE start
        to == IF end < 0 THEN (IF len + end < 0 THEN 0 ELSE len + end)
              ELSE IF end > len THEN len ELSE end
    IN  IF from >= to THEN <<>> ELSE SubSeq(s, from + 1, to)

\* String.prototype.indexOf(ch, from): -1 when ch does not occur
IndexOf(s, ch, from) ==
    LET hits == {i \in from..(Len(s) - 1) : s[i + 1] = ch}
    IN  IF hits = {} THEN -1 ELSE CHOOSE i \in hits : \A j \in hits : i <= j

StartsWith(s, ch) == Len(s) > 0 /\ s[1] = ch
EndsWith(s, ch) == Len(s) > 0 /\ s[Len(s)] = ch

---------------------------------------------------------------------------
(* Numbers: Number(text) and String(number) *)

Digits == {"0", "1", "2", "3", "4", "5", "6", "7", "8", "9"}
DigitVal(c) ==
    CASE c = "0" -> 0 [] c = "1" -> 1 [] c = "2" -> 2 [] c = "3" -> 3
      [] c = "4" -> 4 [] c = "5" -> 5 [] c = "6" -> 6 [] c = "7" -> 7
      [] c = "8" -> 8 [] c = "9" -> 9
DigitChar(d) == <<"0", "1", "2", "3", "4", "5", "6", "7", "8", "9">>[d + 1]

RECURSIVE DecVal(_)
DecVal(ds) == IF ds = <<>> THEN 0 ELSE DecVal(SubSeq(ds, 1, Len(ds) - 1)) * 10 + DigitVal(ds[Len(ds)])

RECURSIVE DecText(_)
DecText(n) == IF n < 10 THEN <<DigitChar(n)>> ELSE DecText(n \div 10) \o <<DigitChar(n % 10)>>

RECURSIVE StripZeros(_)
StripZeros(ds) == IF ds # <<>> /\ ds[Len(ds)] = "0" THEN StripZeros(SubSeq(ds, 1, Len(ds) - 1)) ELSE ds

\* Number(run) for a run of digits and dots that starts with a digit, as the
\* lexer produces it: more than one dot is NaN
NumberOf(run) ==
    LET dots == {i \in 1..Len(run) : run[i] = "."}
    IN  IF Cardinality(dots) > 1 THEN NaN
        ELSE IF dots = {} THEN Num(FALSE, DecVal(run), <<>>)
        ELSE LET d == CHOOSE i \in dots : TRUE
             IN  Num(FALSE, DecVal(SubSeq(run, 1, d - 1)), StripZeros(SubSeq(run, d + 1, Len(run))))

\* String(v) for a boolean, null or number
StringOf(v) ==
    CASE v.k = "null" -> <<"n", "u", "l", "l">>
      [] v.k = "bool" -> IF v.b THEN <<"t", "r", "u", "e">> ELSE <<"f", "a", "l", "s", "e">>
      [] v.k = "num" ->
            IF v.nan THEN <<"N", "a", "N">>
            ELSE (IF v.neg THEN <<"-">> ELSE <<>>) \o DecText(v.int)
                 \o (IF v.frac = <<>> THEN <<>> ELSE <<".">> \o v.frac)

---------------------------------------------------------------------------
(* Lexer: HRON.tokenize *)

validSymbols == {"{", "}", "[", "]", ",", ".", ":"}
Lower == {"a", "b", "c", "d", "e", "f", "g", "h", "i", "j", "k", "l", "m",
          "n", "o", "p", "q", "r", "s", "t", "u", "v", "w", "x", "y", "z"}
Upper == {"A", "B", "C", "D", "E", "F", "G", "H", "I", "J", "K", "L", "M",
          "N", "O", "P", "Q", "R", "S", "T", "U", "V", "W", "X", "Y", "Z"}
isLetter(c) == c \in Upper \/ c \in Lower \/ c = "_"
isDigit(c) == c \in Digits \/ c = "."
isWhitespace(c) == c = " " \/ c = "\n" \/ c = "\t" \/ c = "\r"
isLetterDigit(c) == c \in Upper \/ c \in Lower \/ c \in Digits \/ c = "_"
\* isQuote that knows the single quote only
isQuoteSingle(c) == c = "'"

isQuote(c) == c = "'" \/ c = "\""
isBool(s) == s = <<"t", "r", "u", "e">> \/ s = <<"f", "a", "l", "s", "e">>
isNull(s) == s = <<"n", "u", "l", "l">>
isComment(c) == c = "#"

createSymbolToken(v) == [type |-> "SYMBOL", value |-> Str(v)]
createStringToken(v) == [type |-> "STRING", value |-> Str(v)]
createNumberToken(v) == [type |-> "NUMBER", value |-> v]
createBoolToken(v) == [type |-> "BOOL", value |-> Bool(v)]
createNullToken == [type |-> "NULL", value |-> Null]
createIdentToken(v) == [type |-> "IDENT", value |-> Str(v)]

\* DigitRunEnd that ends the run one character late
RECURSIVE DigitRunEndPast(_, _)
DigitRunEndPast(input, index) ==
    IF index < Len(input) /\ isDigit(input[index + 1]) THEN DigitRunEndPast(input, index + 1) ELSE index + 1

\* the first index >= from (0-based) whose character fails the test of the
\* run; reading past the end fails every test
RECURSIVE DigitRunEnd(_, _)
DigitRunEnd(input, index) ==
    IF index < Len(input) /\ isDigit(input[index + 1]) THEN DigitRunEnd(input, index + 1) ELSE index

\* IdentRunEnd that ends the run where it begins
IdentRunEndStuck(input, index) == index

RECURSIVE IdentRunEnd(_, _)
IdentRunEnd(input, index) ==
    IF index < Len(input) /\ isLetterDigit(input[index + 1]) THEN IdentRunEnd(input, index + 1) ELSE index

\* One turn of the tokenize loop at `pos` (0-based), where a character is
\* left: what it consumed (a skipped whitespace character "ws", a skipped
\* "comment", or a "token"), the token it pushed, and the position it leaves.
LexOne(input, pos) ==
    LET char == input[pos + 1]
        Fail(kind) == [err |-> kind, what |-> "", token |-> createNullToken, to |-> pos]
        Emit(tok, to) == [err |-> "", what |-> "token", token |-> tok, to |-> to]
        Skip(kind, to) == [err |-> "", what |-> kind, token |-> createNullToken, to |-> to]
    IN
    IF isWhitespace(char) THEN Skip("ws", pos + 1)
    ELSE IF isComment(char) THEN
        LET newlineIndex == IndexOf(input, "\n", pos)
        IN  Skip("comment", IF newlineIndex = -1 THEN Len(input) ELSE newlineIndex + 1)
    ELSE IF char \in validSymbols THEN Emit(createSymbolToken(<<char>>), pos + 1)
    ELSE IF isQuote(char) THEN
        LET start == pos + 1
            end == IndexOf(input, char, start)
        IN  IF end = -1 THEN Fail("UnterminatedString")
            ELSE Emit(createStringToken(JsSlice(input, start, end)), end + 1)
    ELSE IF isDigit(char) THEN
        LET index == DigitRunEnd(input, pos)
        IN  Emit(createNumberToken(NumberOf(JsSlice(input, pos, index))), index)
    ELSE IF isLetter(char) THEN
        LET index == IdentRunEnd(input, pos)
            identString == JsSlice(input, pos, index)
        IN  Emit(IF isBool(identString) THEN createBoolToken(identString = <<"t", "r", "u", "e">>)
                 ELSE IF isNull(identString) THEN createNullToken
                 ELSE createIdentToken(identString), index)
    ELSE Fail("UnexpectedCharacter")

\* acc after a turn that started at pos: acc holds the tokens pushed so far
\* and, beside them, a log of what the loop consumed: spans, each token's
\* [from, to) offsets, and skips, the [from, to) offsets of what was skipped
Logged(acc, pos, turn) ==
    IF turn.what = "token"
    THEN [tokens |-> Append(acc.tokens, turn.token), spans |-> Append(acc.spans, <<pos, turn.to>>), skips |-> acc.skips]
    ELSE [tokens |-> acc.tokens, spans |-> acc.spans, skips |-> Append(acc.skips, <<turn.what, pos, turn.to>>)]

\* One turn of the loop from state st = [err, at, tokens, spans, skips], `at`
\* being `position`: nothing once the loop has ended (position past the last
\* character) or thrown.
TokenizeTurn(input, st) ==
    IF st.err # "" \/ ~(st.at < Len(input)) THEN st
    ELSE LET turn == LexOne(input, st.at)
         IN  IF turn.err # "" THEN [err |-> turn.err, tokens |-> <<>>, spans |-> <<>>, skips |-> <<>>, at |-> st.at]
             ELSE Logged(st, st.at, turn) @@ [err |-> "", at |-> turn.to]

\* `turns` turns of the loop from state st, as the first half of them and
\* then the rest
RECURSIVE TokenizeFrom(_, _, _)
TokenizeFrom(input, st, turns) ==
    IF st.err # "" \/ turns = 0 THEN st
    ELSE IF turns = 1 THEN TokenizeTurn(input, st)
    ELSE TokenizeFrom(input, TokenizeFrom(input, st, turns \div 2), turns - (turns \div 2))

\* the whole loop: every turn consumes a character or more, so the loop has
\* ended or thrown after Len(input) turns
tokenize(input) ==
    TokenizeFrom(input, [err |-> "", at |-> 0, tokens |-> <<>>, spans |-> <<>>, skips |-> <<>>], Len(input))

---------------------------------------------------------------------------
(* Parser: HRONASTBuilder.  Every operator takes the token array and the   *)
(* value of this.position (0-based) and returns the position it leaves     *)
(* behind, also when it throws (err # "").                                 *)

createKeyNode(type, name, children) == [type |-> type, name |-> name, children |-> children]
createValueNode(type, val, children) == [type |-> type, value |-> val, children |-> children]
createValueBlockNode(items) == [type |-> "ValueBlock", children |-> items]
createHeaderBlockNode(keyNode) == [type |-> "KeyBlock", children |-> keyNode]
createDocumentNode(header, body) == [type |-> "Document", children |-> [header |-> header, body |-> body]]

hasMoreTokens(toks, pos) == pos < Len(toks)
\* peek(): only read where hasMoreTokens holds (the code's `undefined` case
\* is the guard's other branch)
peek(toks, pos) == toks[pos + 1]
isBracketToken(tok, bracketSymbol) == tok.type = "SYMBOL" /\ tok.value = Str(<<bracketSymbol>>)

\* expect(type, value?): value is "" when the call passes none
expect(toks, pos, type, val) ==
    IF ~hasMoreTokens(toks, pos) THEN [err |-> "UnexpectedEndOfInput", pos |-> pos]
    ELSE LET token == peek(toks, pos) IN
         IF token.type # type THEN [err |-> "UnexpectedToken", pos |-> pos + 1]
         ELSE IF val # "" /\ token.value # Str(<<val>>) THEN [err |-> "UnexpectedToken", pos |-> pos + 1]
         ELSE [err |-> "", pos |-> pos + 1]

RECURSIVE parseKeyNode(_, _)
RECURSIVE parseValueNode(_, _)
RECURSIVE ReadItemsLoop(_, _, _, _, _)

\* parseFunctionCallback(): "key" stands for () => this.parseKeyNode(),
\* "value" for () => this.parseValueNode()
ParseItem(which, toks, pos) ==
    IF which = "key" THEN parseKeyNode(toks, pos) ELSE parseValueNode(toks, pos)

\* SkipComma that consumes every comma of a run of commas
RECURSIVE SkipCommas(_, _)
SkipCommas(toks, pos) ==
    IF hasMoreTokens(toks, pos) /\ peek(toks, pos).value = Str(<<",">>) THEN SkipCommas(toks, pos + 1) ELSE pos

\* if (this.peek()?.value === ",") this.next(): the token's type is not
\* looked at
SkipComma(toks, pos) ==
    IF hasMoreTokens(toks, pos) /\ peek(toks, pos).value = Str(<<",">>) THEN pos + 1 ELSE pos

\* the rest of one iteration of readBracketItems' loop, r being what the
\* callback returned or threw
ItemParsed(toks, r, endSymbol, which, items) ==
    IF r.err # "" THEN [err |-> r.err, pos |-> r.pos, items |-> items]
    ELSE ReadItemsLoop(toks, SkipComma(toks, r.pos), endSymbol, which, Append(items, r.node))

ItemsEnd(e, items) == [err |-> e.err, pos |-> e.pos, items |-> items]

\* the while loop of readBracketItems and the expect that follows it
ReadItemsLoop(toks, pos, endSymbol, which, items) ==
    IF hasMoreTokens(toks, pos) /\ ~isBracketToken(peek(toks, pos), endSymbol)
    THEN ItemParsed(toks, ParseItem(which, toks, pos), endSymbol, which, items)
    ELSE ItemsEnd(expect(toks, pos, "SYMBOL", endSymbol), items)

readBracketItems(toks, pos, endSymbol, which, consumeStart) ==
    ReadItemsLoop(toks, IF consumeStart THEN pos + 1 ELSE pos, endSymbol, which, <<>>)

parseChildren(toks, pos, endSymbol) == readBracketItems(toks, pos, endSymbol, "key", FALSE)

NoNode == [type |-> "none"]

ValueNodeOf(r, nodeType) == [err |-> r.err, pos |-> r.pos, node |-> createValueNode(nodeType, Str(<<>>), r.items)]
parseBracket(toks, pos, endSymbol, nodeType) ==
    ValueNodeOf(readBracketItems(toks, pos, endSymbol, "value", TRUE), nodeType)

BlockOf(r) == [err |-> r.err, pos |-> r.pos, node |-> createValueBlockNode(<<r.node>>)]
parseBracketBlock(toks, pos, endSymbol, type) ==
    BlockOf(ValueNodeOf(readBracketItems(toks, pos, endSymbol, "value", TRUE), type))

KeyNodeOf(r, type, name) == [err |-> r.err, pos |-> r.pos, node |-> createKeyNode(type, name, r.items)]

\* the bracket that opens at token `at`, if one does: "{", "[" or ""
BracketAt(toks, at) ==
    IF hasMoreTokens(toks, at) /\ isBracketToken(peek(toks, at), "{") THEN "{"
    ELSE IF hasMoreTokens(toks, at) /\ isBracketToken(peek(toks, at), "[") THEN "["
    ELSE ""
Closer(open) == IF open = "{" THEN "}" ELSE "]"
BracketType(open) == IF open = "{" THEN "Object" ELSE "List"

\* parseKeyNode: an IDENT with or without a bracket after it, or a bare
\* bracket; `open` is the position of the bracket of a bracketed node
parseKeyNode(toks, pos) ==
    IF ~hasMoreTokens(toks, pos) THEN [err |-> "UnexpectedEndOfInput", pos |-> pos, node |-> NoNode]
    ELSE LET token == peek(toks, pos)
             isIdent == token.type = "IDENT"
             name == IF isIdent THEN token.value.s ELSE <<>>
             open == IF isIdent THEN pos + 1 ELSE pos
             bracket == BracketAt(toks, open)
      IN  IF bracket # ""
            THEN KeyNodeOf(parseChildren(toks, open + 1, Closer(bracket)), BracketType(bracket), name)
          ELSE IF isIdent THEN [err |-> "", pos |-> pos + 1, node |-> createKeyNode("String", name, <<>>)]
          ELSE [err |-> "UnexpectedToken", pos |-> pos, node |-> NoNode]

HeaderOf(r) == [err |-> r.err, pos |-> r.pos, node |-> createHeaderBlockNode(r.node)]
parseHeaderBlock(toks, pos) == HeaderOf(parseKeyNode(toks, pos))

parseValueNode(toks, pos) ==
    IF ~hasMoreTokens(toks, pos) THEN [err |-> "UnexpectedEndOfInput", pos |-> pos, node |-> NoNode]
    ELSE LET token == peek(toks, pos)
             bracket == BracketAt(toks, pos)
      IN  IF bracket # "" THEN parseBracket(toks, pos, Closer(bracket), BracketType(bracket))
          ELSE CASE token.type = "STRING" ->
                  [err |-> "", pos |-> pos + 1, node |-> createValueNode("String", token.value, <<>>)]
             [] token.type = "NUMBER" ->
                  [err |-> "", pos |-> pos + 1, node |-> createValueNode("Number", token.value, <<>>)]
             [] token.type = "BOOL" ->
                  \* tokenValue === "true" compares the token's boolean with a string
                  [err |-> "", pos |-> pos + 1,
                   node |-> createValueNode("Boolean", Bool(token.value = Str(<<"t", "r", "u", "e">>)), <<>>)]
             [] token.type = "NULL" ->
                  [err |-> "", pos |-> pos + 1, node |-> createValueNode("Null", Null, <<>>)]
             [] OTHER -> [err |-> "UnexpectedToken", pos |-> pos + 1, node |-> NoNode]

\* switch (tokenValue): "{" or "[" whatever the token's type, else ""
BlockBracket(start) ==
    IF start.value = Str(<<"{">>) THEN "{" ELSE IF start.value = Str(<<"[">>) THEN "[" ELSE ""

parseValueBlock(toks, pos) ==
    IF ~hasMoreTokens(toks, pos) THEN [err |-> "UnexpectedEndOfInput", pos |-> pos, node |-> NoNode]
    ELSE LET start == peek(toks, pos)
             bracket == BlockBracket(start)
      IN  IF bracket # "" THEN parseBracketBlock(toks, pos, Closer(bracket), BracketType(bracket))
          ELSE IF start.type \in {"STRING", "NUMBER", "BOOL"} THEN BlockOf(parseValueNode(toks, pos))
          ELSE [err |-> "UnexpectedToken", pos |-> pos, node |-> NoNode]

\* build(tokens): this.tokens is assigned, this.position is left as it is;
\* reset() runs only when nothing threw.  Returns the document or the error,
\* and the two fields as the call leaves them.
BuildThrew(toks, r) == [err |-> r.err, tokens |-> toks, position |-> r.pos, document |-> NoNode]
\* BuildBody that throws when a token follows the value block
BuildBodyToEnd(toks, header, body) ==
    IF body.err # "" THEN BuildThrew(toks, body)
    ELSE IF hasMoreTokens(toks, body.pos) THEN BuildThrew(toks, [err |-> "UnexpectedToken", pos |-> body.pos])
    ELSE [err |-> "", tokens |-> <<>>, position |-> 0, document |-> createDocumentNode(header.node, body.node)]

BuildBody(toks, header, body) ==
    IF body.err # "" THEN BuildThrew(toks, body)
    ELSE [err |-> "", tokens |-> <<>>, position |-> 0, document |-> createDocumentNode(header.node, body.node)]
BuildColon(toks, header, colon) ==
    IF colon.err # "" THEN BuildThrew(toks, colon)
    ELSE BuildBody(toks, header, parseValueBlock(toks, colon.pos))
BuildHeader(toks, header) ==
    IF header.err # "" THEN BuildThrew(toks, header)
    ELSE BuildColon(toks, header, expect(toks, header.pos, "SYMBOL", ":"))
build(toks, pos) == BuildHeader(toks, parseHeaderBlock(toks, pos))

---------------------------------------------------------------------------
(* Translator, decode side: HRONASTTranslator.buildHierarchy, buildObject  *)

\* isTypeNotEqual that finds no mismatch
isTypeNotEqualNever(keyType, valueType, targetType) == FALSE

isTypeNotEqual(keyType, valueType, targetType) == keyType = targetType /\ valueType # targetType
isObject(type) == type = "Object"
isList(type) == type = "List"
isObjectList(type) == isObject(type) \/ isList(type)

\* buildHierarchy's walk with the extract callback of getKeysHierarchy
RECURSIVE WalkKey(_, _)
WalkKey(node, level) ==
    <<[name |-> node.name, type |-> node.type, level |-> level]>>
    \o Concat([i \in 1..Len(node.children) |-> WalkKey(node.children[i], level + 1)])

\* buildHierarchy's walk with the extract callback of getValuesHierarchy
RECURSIVE WalkValue(_, _)
WalkValue(node, level) ==
    <<[type |-> node.type, value |-> node.value, level |-> level]>>
    \o Concat([i \in 1..Len(node.children) |-> WalkValue(node.children[i], level + 1)])

getKeysHierarchy(root) == WalkKey(root, 1)
getValuesHierarchy(roots) == Concat([i \in 1..Len(roots) |-> WalkValue(roots[i], 1)])

\* The objects and arrays buildObject creates live in a heap (a sequence of
\* nodes; a node's identity is its index), because both stacks and the
\* result hold references to them.  An entry is <<name, slot>>; a slot is a
\* reference to a node or a scalar value.
Ref(id) == [k |-> "ref", id |-> id]
NewNode(type) == [arr |-> isList(type), ents |-> <<>>]

\* parent.push(slot)
Push(heap, parent, slot) ==
    [heap EXCEPT ![parent].ents = Append(@, <<<<>>, slot>>)]

\* SetProp that adds an entry also where the key is already there
SetPropAppend(heap, parent, name, slot) ==
    [heap EXCEPT ![parent].ents = Append(@, <<name, slot>>)]

\* parent[name] = slot: an existing key keeps its place
SetProp(heap, parent, name, slot) ==
    LET ents == heap[parent].ents
        at == {i \in 1..Len(ents) : ents[i][1] = name}
    IN  IF at = {} THEN [heap EXCEPT ![parent].ents = Append(@, <<name, slot>>)]
        ELSE [heap EXCEPT ![parent].ents = [i \in 1..Len(ents) |-> IF i \in at THEN <<name, slot>> ELSE ents[i]]]

\* PopTo that leaves on the stack an entry of the level it pops to
RECURSIVE PopToAbove(_, _)
PopToAbove(stack, level) ==
    IF stack = <<>> THEN [err |-> "TypeError", stack |-> stack]
    ELSE IF stack[Len(stack)].level > level THEN PopToAbove(SubSeq(stack, 1, Len(stack) - 1), level)
    ELSE [err |-> "", stack |-> stack]

\* while (stack[stack.length - 1]!.level >= level) stack.pop(): reading the
\* level of the top of an empty stack is a TypeError
RECURSIVE PopTo(_, _)
PopTo(stack, level) ==
    IF stack = <<>> THEN [err |-> "TypeError", stack |-> stack]
    ELSE IF stack[Len(stack)].level >= level THEN PopTo(SubSeq(stack, 1, Len(stack) - 1), level)
    ELSE [err |-> "", stack |-> stack]

\* NextCursor without the wrap to 0
NextCursorNoWrap(cursor, len) == cursor + 1

\* the cursor after a field was assigned: back to 0 past the last field
NextCursor(cursor, len) == IF cursor + 1 >= len THEN 0 ELSE cursor + 1

\* ValueParentIsArray with the array-parent branch never taken
ValueParentNeverArray(heap, parent) == FALSE

\* whether the array-parent branch is taken for a value whose parent is node
\* `parent` (Array.isArray(valueParent))
ValueParentIsArray(heap, parent) == heap[parent].arr

\* the trail of a pop loop that emptied its stack
Emptied(side, level, before) ==
    [side |-> side, level |-> level, before |-> before, popped |-> <<>>, after |-> <<>>,
     parent |-> 0, slot |-> Null, attached |-> FALSE]

\* One iteration of the inner while loop of buildObject, on values[valueIndex].
\* st: the locals (heap, keyStack, valueStack, keyCursor, valueIndex), err and
\* n, and `named`, a log of <<valueIndex, field name>> for every
\* valueParent[keyEntry.name] = value the loop performs; `matched`, a log of
\* every keyEntry read for a data entry; `mismatch`, what the "Type mismatch"
\* message holds; `spans`, the data entries each key's while loop consumed;
\* `consumed`, a log of every valueIndex++ with the level of the key at which
\* it was done; `trail`, a log of what every pop loop did to its stack and of
\* the parent then read from it.
ValueStep(st, values, keyLevels) ==
    LET currentValue == values[st.valueIndex + 1]
        valueType == currentValue.type
        valueLevel == currentValue.level
        popped == PopTo(st.valueStack, valueLevel)
        stack == popped.stack
        valueParent == stack[Len(stack)].node
        id == Len(st.heap) + 1
        heap1 == IF isObjectList(valueType) THEN Append(st.heap, NewNode(valueType)) ELSE st.heap
        slot == IF isObjectList(valueType) THEN Ref(id) ELSE currentValue.value
        pushed == IF isObjectList(valueType) THEN Append(stack, [level |-> valueLevel, node |-> id]) ELSE stack
        keysAtLevel == IF valueLevel \in DOMAIN keyLevels THEN keyLevels[valueLevel] ELSE <<>>
        cursor == IF valueLevel \in DOMAIN st.keyCursor THEN st.keyCursor[valueLevel] ELSE 0
        keyEntry == keysAtLevel[cursor + 1]
        keyType == keyEntry.type
        match == [index |-> st.valueIndex, level |-> valueLevel, name |-> keyEntry.name,
                  keyType |-> keyType, valueType |-> valueType]
        thrown == [side |-> "value", level |-> valueLevel, before |-> st.valueStack,
                   popped |-> stack, after |-> stack, parent |-> valueParent, slot |-> slot, attached |-> FALSE]
        done == [thrown EXCEPT !.after = pushed, !.attached = TRUE]
    IN  IF popped.err # "" THEN [st EXCEPT !.err = popped.err, !.trail = Append(@, Emptied("value", valueLevel, st.valueStack))]
        ELSE IF stack = <<>> THEN [st EXCEPT !.err = "NoParent", !.trail = Append(@, Emptied("value", valueLevel, st.valueStack))]
        ELSE IF ValueParentIsArray(st.heap, valueParent) THEN
            [st EXCEPT !.heap = Push(heap1, valueParent, slot),
                       !.trail = Append(@, done),
                       !.valueStack = pushed,
                       !.valueIndex = @ + 1]
        \* keyEntry!.type with keyEntry undefined
        ELSE IF ~(cursor < Len(keysAtLevel))
            THEN [st EXCEPT !.err = "TypeError", !.keyCursor = (valueLevel :> cursor) @@ @,
                            !.trail = Append(@, thrown)]
        ELSE IF isTypeNotEqual(keyType, valueType, "List") \/ isTypeNotEqual(keyType, valueType, "Object")
            THEN [st EXCEPT !.err = "SchemaMismatch", !.keyCursor = (valueLevel :> cursor) @@ @,
                            !.matched = Append(@, match),
                            !.trail = Append(@, thrown),
                            !.mismatch = {[level |-> valueLevel, name |-> keyEntry.name,
                                           expects |-> keyType, got |-> valueType]}]
        ELSE [st EXCEPT !.heap = SetProp(heap1, valueParent, keyEntry.name, slot),
                        !.keyCursor = (valueLevel :> NextCursor(cursor, Len(keysAtLevel))) @@ @,
                        !.named = Append(@, <<st.valueIndex, keyEntry.name>>),
                        !.matched = Append(@, match),
                        !.trail = Append(@, done),
                        !.valueStack = pushed,
                        !.valueIndex = @ + 1]

\* WithinSpan that lets a key take a data entry of any level
WithinSpanAny(valueLevel, level) == TRUE

\* values[valueIndex].level <= level + 1
WithinSpan(valueLevel, level) == valueLevel <= level + 1

\* the locals after a turn of the while loop of a key at `level`, which
\* began at valueIndex `index`: a turn that does not throw ends in valueIndex++
Consumed(st, level, index) ==
    IF st.err # "" THEN st
    ELSE [st EXCEPT !.consumed = Append(@, [index |-> index, level |-> level])]

\* the inner while loop, run for the key at `level`
RECURSIVE ValueLoop(_, _, _, _)
ValueLoop(st, values, keyLevels, level) ==
    IF st.err = "" /\ st.valueIndex < Len(values) /\ WithinSpan(values[st.valueIndex + 1].level, level)
    THEN ValueLoop(Consumed(ValueStep(st, values, keyLevels), level, st.valueIndex), values, keyLevels, level)
    ELSE st

\* the body of `for (const key of keys)` up to the inner while loop
KeyStep(st, key) ==
    LET popped == PopTo(st.keyStack, key.level)
        stack == popped.stack
        parent == stack[Len(stack)].node
        id == Len(st.heap) + 1
        heap1 == IF isObjectList(key.type) THEN Append(st.heap, NewNode(key.type)) ELSE st.heap
        newNode == IF isObjectList(key.type) THEN Ref(id) ELSE Null
        pushed == IF isObjectList(key.type) THEN Append(stack, [level |-> key.level, node |-> id]) ELSE stack
    IN  IF popped.err # "" THEN [st EXCEPT !.err = popped.err, !.trail = Append(@, Emptied("key", key.level, st.keyStack))]
        ELSE [st EXCEPT !.heap = IF heap1[parent].arr THEN Push(heap1, parent, newNode)
                                 ELSE SetProp(heap1, parent, key.name, newNode),
                        !.trail = Append(@, [side |-> "key", level |-> key.level, before |-> st.keyStack,
                                             popped |-> stack, after |-> pushed, parent |-> parent,
                                             slot |-> newNode, attached |-> TRUE]),
                        !.keyStack = pushed]

\* the locals after the while loop of key i, which began at valueIndex
\* `from`, has run to its end
Spanned(st, i, level, from) ==
    IF st.err # "" THEN st
    ELSE [st EXCEPT !.spans = Append(@, [key |-> i, level |-> level, from |-> from, to |-> st.valueIndex])]

RECURSIVE KeyLoop(_, _, _, _, _)
KeyLoop(st, keys, values, keyLevels, i) ==
    IF st.err # "" \/ i > Len(keys) THEN st
    ELSE LET st1 == KeyStep(st, keys[i])
         IN  IF st1.err # "" THEN st1
             ELSE KeyLoop(Spanned(ValueLoop(st1, values, keyLevels, keys[i].level), i, keys[i].level, st.valueIndex),
                          keys, values, keyLevels, i + 1)

RECURSIVE Materialize(_, _)
Materialize(heap, id) ==
    LET ents == heap[id].ents
        Of(slot) == IF slot.k = "ref" THEN Materialize(heap, slot.id) ELSE slot
    IN  IF heap[id].arr THEN Arr([i \in 1..Len(ents) |-> Of(ents[i][2])])
        ELSE Obj([i \in 1..Len(ents) |-> <<ents[i][1], Of(ents[i][2])>>])

\* Unused that finds every data entry used
UnusedNever(valueIndex, valueLen) == FALSE

\* valueIndex < valueLen after the loops
Unused(valueIndex, valueLen) == valueIndex < valueLen

\* buildObject's locals after its loops (keys is never empty: the header
\* always holds one key node): root is node 1, at the bottom of both stacks
Reconcile(keys, values) ==
    LET levels == {keys[i].level : i \in 1..Len(keys)}
        keyLevels == [l \in levels |-> SelectSeq(keys, LAMBDA k : k.level = l)]
        st0 == [heap |-> <<[arr |-> FALSE, ents |-> <<>>]>>,
                keyStack |-> <<[level |-> 0, node |-> 1]>>,
                valueStack |-> <<[level |-> 0, node |-> 1]>>,
                keyCursor |-> [l \in {} |-> 0],
                valueIndex |-> 0,
                named |-> <<>>, matched |-> <<>>, mismatch |-> {}, spans |-> <<>>, consumed |-> <<>>, trail |-> <<>>,
                err |-> "", n |-> 0]
        st == KeyLoop(st0, keys, values, keyLevels, 1)
    IN  IF st.err = "" /\ Unused(st.valueIndex, Len(values))
        THEN [st EXCEPT !.err = "ExtraValues", !.n = Len(values) - st.valueIndex]
        ELSE st

\* the result: if (keys.length === 0) return {}; the "Extra values" throw;
\* return root
Result(keys, st) ==
    IF keys = <<>> THEN Ok(Obj(<<>>))
    ELSE IF st.err # "" THEN ErrN(st.err, st.n)
    ELSE Ok(Materialize(st.heap, 1))

buildObject(keys, values) == Result(keys, Reconcile(keys, values))

toObject(document) ==
    buildObject(getKeysHierarchy(document.children.header.children),
                getValuesHierarchy(document.children.body.children))

---------------------------------------------------------------------------
(* Translator, encode side: objectToHRONKeys, objectToHRONValues, toHRON   *)

isStringObject(input) == StartsWith(input, "{") /\ EndsWith(input, "}")
isStringList(input) == StartsWith(input, "[") /\ EndsWith(input, "]")
sliceBracket(input) == JsSlice(input, 1, Len(input) - 1)

\* an optional string argument: NoName is `undefined`
NoName == [has |-> FALSE, s |-> <<>>]
Name(s) == [has |-> TRUE, s |-> s]
\* `name ? ... : ...`: undefined and "" are falsy
Truthy(name) == name.has /\ name.s # <<>>

\* FirstErr that finds no error in any result
FirstErrNone(rs) == ""

\* the first error of a sequence of results, "" when there is none
FirstErr(rs) ==
    LET bad == {i \in 1..Len(rs) : rs[i].err # ""}
    IN  IF bad = {} THEN "" ELSE rs[CHOOSE i \in bad : \A j \in bad : i <= j].err

\* ElementZero that takes the last element as the representative
ElementLast(items) == IF Len(items) = 0 THEN Undef ELSE items[Len(items)]

\* object[0] of an array: undefined when the array is empty
ElementZero(items) == IF Len(items) = 0 THEN Undef ELSE items[1]

\* objectToHRONKeys(object, name): every throw inside is caught and thrown
\* again as "Invalid HRON Keys"
RECURSIVE objectToHRONKeys(_, _)
objectToHRONKeys(object, name) ==
    IF object.k = "undef" THEN [err |-> "UndefinedKey", s |-> <<>>]
    ELSE IF object.k = "arr" THEN
        LET hronKeys == objectToHRONKeys(ElementZero(object.items), NoName)
        IN  IF hronKeys.err # "" THEN [err |-> "UndefinedKey", s |-> <<>>]
            ELSE [err |-> "", s |-> (IF Truthy(name) THEN name.s ELSE <<>>) \o <<"[">> \o hronKeys.s \o <<"]">>]
    ELSE IF object.k = "obj" THEN
        LET parts == [i \in 1..Len(object.fields) |->
                        objectToHRONKeys(object.fields[i][2], Name(object.fields[i][1]))]
            keys == Join([i \in 1..Len(parts) |-> parts[i].s], <<",">>)
        IN  IF FirstErr(parts) # "" THEN [err |-> "UndefinedKey", s |-> <<>>]
            ELSE [err |-> "", s |-> (IF Truthy(name) THEN name.s ELSE <<>>) \o <<"{">> \o keys \o <<"}">>]
    ELSE [err |-> "", s |-> IF name.has THEN name.s ELSE <<>>]

\* ToNumber(indent): the indent argument is a number, or the options object
\* stringify passes on, which converts to NaN
ToNumber(indent) ==
    IF indent.k = "num" /\ ~indent.nan THEN [nan |-> FALSE, n |-> IF indent.neg THEN 0 - indent.int ELSE indent.int]
    ELSE [nan |-> TRUE, n |-> 0]
\* indent < 1: false when indent is NaN
IndentBelowOne(indent) == ~ToNumber(indent).nan /\ ToNumber(indent).n < 1
\* " ".repeat(indent * m): NaN repeats 0 times, a negative count throws
RepeatThrows(indent, m) == ~ToNumber(indent).nan /\ ToNumber(indent).n * m < 0
Repeat(indent, m) == IF ToNumber(indent).nan THEN <<>> ELSE [i \in 1..(ToNumber(indent).n * m) |-> " "]

\* object.length === 0 on a non-array object: true only for an own property
\* `length` holding 0
ObjectLengthIsZero(fields) ==
    \E i \in 1..Len(fields) : fields[i][1] = <<"l", "e", "n", "g", "t", "h">> /\ fields[i][2] = IntNum(0)

\* the bracketed group of an array ("[", "]") or an object ("{", "}")
Group(items, open, close, collapsed, indent, level) ==
    IF collapsed \/ IndentBelowOne(indent) THEN [err |-> "", s |-> <<open>> \o items \o <<close>>]
    ELSE IF RepeatThrows(indent, level) \/ RepeatThrows(indent, level - 1) THEN [err |-> "InvalidValues", s |-> <<>>]
    ELSE [err |-> "", s |-> <<open, "\n">> \o Repeat(indent, level) \o items \o <<"\n">>
                            \o Repeat(indent, level - 1) \o <<close>>]

\* objectToHRONValues(object, indent, level): every throw inside is caught
\* and thrown again as "Invalid HRON values"
RECURSIVE objectToHRONValues(_, _, _)
objectToHRONValues(object, indent, level) ==
    IF object.k = "undef" THEN [err |-> "InvalidValues", s |-> <<>>]
    ELSE IF object.k = "arr" THEN
        LET parts == [i \in 1..Len(object.items) |-> objectToHRONValues(object.items[i], indent, level + 1)]
            items == Join([i \in 1..Len(parts) |-> parts[i].s], <<",">>)
        IN  IF Len(object.items) = 0 THEN [err |-> "", s |-> <<"[", "]">>]
            ELSE IF FirstErr(parts) # "" THEN [err |-> "InvalidValues", s |-> <<>>]
            ELSE Group(items, "[", "]", isStringList(items), indent, level)
    ELSE IF object.k = "obj" THEN
        LET parts == [i \in 1..Len(object.fields) |-> objectToHRONValues(object.fields[i][2], indent, level + 1)]
            values == Join([i \in 1..Len(parts) |-> parts[i].s], <<",">>)
        IN  IF ObjectLengthIsZero(object.fields) THEN [err |-> "", s |-> <<"{", "}">>]
            ELSE IF FirstErr(parts) # "" THEN [err |-> "InvalidValues", s |-> <<>>]
            ELSE Group(values, "{", "}", isStringObject(values), indent, level)
    ELSE IF object.k = "str" THEN [err |-> "", s |-> <<"'">> \o object.s \o <<"'">>]
    ELSE [err |-> "", s |-> StringOf(object)]

\* toHRON(object, indent)
toHRON(object, indent) ==
    LET keys == objectToHRONKeys(object, NoName)
        values == objectToHRONValues(object, indent, 0)
    IN  IF keys.err # "" THEN Err(keys.err)
        ELSE IF values.err # "" THEN Err(values.err)
        ELSE Ok(Str(sliceBracket(keys.s) \o <<":", " ">> \o sliceBracket(values.s)))

\* HRON.stringify(object, options): the options object itself is handed to
\* toHRON as its indent argument
stringify(object, opts) == toHRON(object, opts)

---------------------------------------------------------------------------
(* HRON.parse on an instance whose fields hold (toks0, pos0) *)

NoRecon == [reached |-> FALSE, keys |-> <<>>, entries |-> <<>>, keyCursor |-> [l \in {} |-> 0], named |-> <<>>,
            matched |-> <<>>, mismatch |-> {}, spans |-> <<>>, consumed |-> <<>>, trail |-> <<>>,
            heap |-> <<>>, valueIndex |-> 0]

\* what is kept of buildObject's arguments and locals: the schema and data
\* entries it was given, its cursors and its logs
ReconOf(keys, values, st) ==
    [reached |-> TRUE, keys |-> keys, entries |-> values,
     keyCursor |-> st.keyCursor, named |-> st.named, matched |-> st.matched,
     mismatch |-> st.mismatch, spans |-> st.spans, consumed |-> st.consumed,
     trail |-> st.trail, heap |-> st.heap, valueIndex |-> st.valueIndex]

\* toObject(document), with buildObject's locals beside its outcome
TranslatedOf(keys, values, st) == [outcome |-> Result(keys, st), recon |-> ReconOf(keys, values, st)]
Translated(keys, values) == TranslatedOf(keys, values, Reconcile(keys, values))

ParseBuilt(built) ==
    IF built.err # "" THEN
        [tokens |-> built.tokens, position |-> built.position, outcome |-> Err(built.err), recon |-> NoRecon]
    ELSE [tokens |-> built.tokens, position |-> built.position]
         @@ Translated(getKeysHierarchy(built.document.children.header.children),
                       getValuesHierarchy(built.document.children.body.children))

ParseLexed(lexed, toks0, pos0) ==
    IF lexed.err # "" THEN [tokens |-> toks0, position |-> pos0, outcome |-> Err(lexed.err), recon |-> NoRecon]
    ELSE ParseBuilt(build(lexed.tokens, pos0))

\* this.toObject(this.build(this.tokenize(input)))
parse(input, toks0, pos0) == ParseLexed(tokenize(input), toks0, pos0)

---------------------------------------------------------------------------
(* Inputs *)

\* bounds of the generated documents: fields per object, objects per list,
\* items per flat list
MaxFields == 2
MaxInstances == 3
MaxItems == 3

\* scalar literals as they are written, with the value each denotes
ScalarLex == <<
    [lex |-> <<"1">>, val |-> IntNum(1)],
    [lex |-> <<"'", "x", "'">>, val |-> Str(<<"x">>)],
    [lex |-> <<"2", "0">>, val |-> IntNum(20)],
    [lex |-> <<"n", "u", "l", "l">>, val |-> Null],
    [lex |-> <<"2", ".", "5">>, val |-> Num(FALSE, 2, <<"5">>)],
    [lex |-> <<"f", "a", "l", "s", "e">>, val |-> Bool(FALSE)],
    [lex |-> <<"t", "r", "u", "e">>, val |-> Bool(TRUE)] >>
\* the scalar written at place n (0-based) of a document rotated by r
ScalarAt(r, n) == ScalarLex[((r + n) % Len(ScalarLex)) + 1]
Rotations == {0, 4}

FieldNames == <<<<"a">>, <<"b">>, <<"c">>, <<"d">>, <<"e">>, <<"f">>>>

\* [{s,...,s},...,{s,...,s}]: a list of n objects of k scalars each
CycleList(k, n, r) ==
    <<"[">> \o Join([i \in 1..n |-> <<"{">> \o Join([j \in 1..k |-> ScalarAt(r, (i - 1) * k + (j - 1)).lex], <<",">>)
                                    \o <<"}">>], <<",">>)
    \o <<"]">>
\* u[{f1,...,fk}]: [...], or, wrapped in a root object, d{u[{f1,...,fk}]}: {[...]}
CycleDoc(k, n, r, wrapped) ==
    LET schema == <<"u", "[", "{">> \o Join(SubSeq(FieldNames, 1, k), <<",">>) \o <<"}", "]">>
    IN  IF wrapped THEN <<"d", "{">> \o schema \o <<"}", ":", " ", "{">> \o CycleList(k, n, r) \o <<"}">>
        ELSE schema \o <<":", " ">> \o CycleList(k, n, r)
\* the value CycleDoc denotes: field j of object i holds scalar (i, j)
CycleValue(k, n, r, wrapped) ==
    LET users == Obj(<< <<<<"u">>, Arr([i \in 1..n |->
                    Obj([j \in 1..k |-> <<FieldNames[j], ScalarAt(r, (i - 1) * k + (j - 1)).val>>])])>> >>)
    IN  IF wrapped THEN Obj(<< <<<<"d">>, users>> >>) ELSE users
CycleDocs == {CycleDoc(k, n, r, w) : k \in 1..MaxFields, n \in 1..MaxInstances, r \in Rotations, w \in BOOLEAN}

\* h[]: [s,...,s]: a flat list of n scalars
FlatDoc(n, r) ==
    <<"h", "[", "]", ":", " ", "[">> \o Join([i \in 1..n |-> ScalarAt(r, i - 1).lex], <<",">>) \o <<"]">>
FlatValue(n, r) == Obj(<< <<<<"h">>, Arr([i \in 1..n |-> ScalarAt(r, i - 1).val])>> >>)
FlatDocs == {FlatDoc(n, r) : n \in 0..MaxItems, r \in Rotations}

\* a leaf header and a number
TxtLeaf == <<"a", ":", " ", "1">>
\* no colon: the builder throws after consuming tokens
TxtNoColon == <<"a", " ", "1">>
\* a data entry at a depth where the schema declares no field
TxtNoSchemaAtDepth == <<"a", ":", " ", "{", "1", "}">>
\* a bare number where the schema declares a list of objects
TxtScalarInObjectList == <<"i", "[", "{", "a", "}", "]", ":", " ", "[", "5", "]">>
\* an object, then a bare number, in a list of objects
TxtObjectThenScalar == <<"i", "[", "{", "a", "}", "]", ":", " ", "[", "{", "1", "}", ",", "5", "]">>
\* one field declared, two values given
TxtSurplus == <<"{", "a", "}", ":", " ", "{", "1", ",", "2", "}">>
\* two fields declared, three values given
TxtSurplusNamed == <<"o", "{", "a", ",", "b", "}", ":", " ", "{", "1", ",", "2", ",", "3", "}">>
\* two list items separated by a space only
TxtNoComma == <<"a", "[", "]", ":", " ", "[", "1", " ", "2", "]">>
\* TxtNoComma with the space removed
TxtMerged == <<"a", "[", "]", ":", " ", "[", "1", "2", "]">>
\* a value deeper than the schema reaches
TxtTooDeep == <<"a", "[", "]", ":", " ", "[", "[", "1", "]", "]">>
\* an unterminated string
TxtOpenString == <<"a", ":", " ", "'", "x">>
\* a character no lexer rule matches
TxtMinus == <<"a", ":", " ", "-", "1">>
TxtTrue == <<"a", ":", " ", "t", "r", "u", "e">>
TxtNull == <<"a", ":", " ", "n", "u", "l", "l">>
TxtString == <<"a", ":", " ", "'", "x", "'">>
TxtFalse == <<"a", ":", " ", "f", "a", "l", "s", "e">>
\* a double-quoted string holding the other quote, a #, a comma and a space
TxtQuoted == <<"a", ":", " ", "\"", "i", "'", "#", ",", " ", "s", "\"">>
\* a double-quoted string that only a single quote follows
TxtOpenMixed == <<"a", ":", " ", "\"", "x", "'">>
\* tabs, a line break, and a comment that the end of the text closes
TxtCommentEnd == <<"k", "1", "\t", ":", "\r", "\n", "2", ".", "5", " ", "#", "c", " ", "'">>
\* a character no rule matches, after a comment line and a string
TxtBadAfter == <<"#", "-", "\n", "a", "[", "]", ":", " ", "[", "'", "-", "'", ",", "-", "1", "]">>
\* an object holding a flat list between two leaves
TxtNested == <<"d", "{", "x", ",", "y", "[", "]", ",", "z", "}", ":", " ", "{", "1", ",", "[", "1", ",", "2", "]", ",", "3", "}">>
\* a comment line before the document
TxtComment == <<"#", "c", "\n", "a", ":", " ", "1">>
\* no whitespace at all
TxtTight == <<"a", ":", "1">>
\* a scalar where the schema declares an object
TxtObjectForLeaf == <<"a", "{", "b", "}", ":", " ", "1">>
\* a token after the value block
TxtTrailing == <<"a", ":", " ", "1", " ", "2">>
TxtEmpty == <<>>
\* two keys separated by a space only
TxtKeysNoComma == <<"x", "{", "a", " ", "b", "}", ":", " ", "{", "1", ",", "2", "}">>
\* ends inside a bracket
TxtHalfOpen == <<"a", "{", "b", ",", "c", "}", ":", " ", "{", "1", ",", "{">>
TxtUsers == <<"u", "[", "{", "i", ",", "n", "}", "]", ":", " ", "[", "{", "1", ",", "'", "a", "'", "}", ",", "{", "2", ",", "'", "b", "'", "}", "]">>

\* objects of a list that hold fewer fields than the schema declares
TxtFewerFields == <<"u", "[", "{", "a", ",", "b", "}", "]", ":", " ", "[", "{", "1", "}", ",", "{", "2", "}", "]">>
\* two schema objects with fields at the same depth, the first given one
\* field of its two
TxtTwoContainers == <<"r", "{", "a", "{", "x", ",", "y", "}", ",", "b", "{", "p", "}", "}", ":", " ",
                      "{", "{", "1", "}", ",", "{", "2", "}", "}">>
\* two schema objects with fields at the same depth, each given all its fields
TxtTwoContainersFull == <<"r", "{", "a", "{", "x", ",", "y", "}", ",", "b", "{", "p", "}", "}", ":", " ",
                          "{", "{", "1", ",", "2", "}", ",", "{", "3", "}", "}">>
\* a number written from its decimal point
TxtLeadingDot == <<"a", ":", " ", ".", "5">>
\* a run of digits holding two points, then a list of numbers
TxtDottedRun == <<"a", "[", "]", ":", " ", "[", "1", ".", "2", ".", "3", ",", "4", "0", ",", "7", ".", "]">>
\* a comma before the closing bracket of a value list
TxtTrailingValue == <<"a", "[", "]", ":", " ", "[", "1", ",", "2", ",", "]">>
TxtPlainValue == <<"a", "[", "]", ":", " ", "[", "1", ",", "2", "]">>
\* a comma before the closing bracket of a key list
TxtTrailingKey == <<"x", "{", "a", ",", "b", ",", "}", ":", " ", "{", "1", ",", "2", "}">>
TxtPlainKey == <<"x", "{", "a", ",", "b", "}", ":", " ", "{", "1", ",", "2", "}">>
\* a comma before every closing bracket of a list of objects
TxtTrailingAll == <<"u", "[", "{", "i", ",", "n", ",", "}", ",", "]", ":", " ",
                    "[", "{", "1", ",", "'", "a", "'", ",", "}", ",", "{", "2", ",", "'", "b", "'", "}", ",", "]">>
\* empty items: two commas in a row, a comma after the opening bracket, two
\* commas before the closing bracket
TxtTwoCommasValue == <<"a", "[", "]", ":", " ", "[", "1", ",", ",", "2", "]">>
TxtLeadingCommaValue == <<"a", "[", "]", ":", " ", "[", ",", "1", "]">>
TxtTwoTrailingValue == <<"a", "[", "]", ":", " ", "[", "1", ",", ",", "]">>
TxtTwoCommasKey == <<"x", "{", "a", ",", ",", "b", "}", ":", " ", "{", "1", ",", "2", "}">>
TxtLeadingCommaKey == <<"x", "{", ",", "a", "}", ":", " ", "{", "1", "}">>
\* two values deeper than the schema reaches
TxtTooDeepTwo == <<"a", "[", "]", ":", " ", "[", "[", "1", ",", "2", "]", "]">>
\* a list where the schema declares an object
TxtListForObject == <<"o", "{", "a", "}", ":", " ", "[", "1", "]">>
\* inside a data object, an object where the schema declares a list
TxtObjectForList == <<"o", "{", "a", "[", "]", "}", ":", " ", "{", "{", "1", "}", "}">>
\* inside a data object, a number where the schema declares a list
TxtScalarForList == <<"o", "{", "a", "[", "]", ",", "b", "}", ":", " ", "{", "1", ",", "2", "}">>
\* the second object of a list holds a number where the schema declares a list
TxtMismatchSecond == <<"u", "[", "{", "a", "[", "]", "}", "]", ":", " ",
                       "[", "{", "[", "1", "]", "}", ",", "{", "2", "}", "]">>

Curated == {TxtLeaf, TxtNoColon, TxtNoSchemaAtDepth, TxtScalarInObjectList, TxtObjectThenScalar,
            TxtSurplus, TxtSurplusNamed, TxtNoComma, TxtMerged, TxtTooDeep,
            TxtOpenString, TxtMinus, TxtTrue, TxtNull, TxtNested,
            TxtComment, TxtTight, TxtObjectForLeaf, TxtTrailing, TxtEmpty,
            TxtKeysNoComma, TxtHalfOpen, TxtUsers, TxtString, TxtFalse,
            TxtQuoted, TxtOpenMixed, TxtCommentEnd, TxtBadAfter, TxtListForObject,
            TxtObjectForList, TxtScalarForList, TxtMismatchSecond, TxtTooDeepTwo,
            TxtFewerFields, TxtTwoContainers, TxtTwoContainersFull,
            TxtLeadingDot, TxtDottedRun, TxtTrailingValue, TxtTrailingKey, TxtTrailingAll,
            TxtTwoCommasValue, TxtLeadingCommaValue, TxtTwoTrailingValue, TxtTwoCommasKey,
            TxtLeadingCommaKey}

Texts == Curated \cup CycleDocs \cup FlatDocs

\* the values given to stringify
\* {a: 1}
ValLeaf == Obj(<<<<<<"a">>, IntNum(1)>>>>)
\* {a: 1, b: 2}: two keys at the root
ValTwoKeys == Obj(<<<<<<"a">>, IntNum(1)>>, <<<<"b">>, IntNum(2)>>>>)
\* {a: -1}
ValNegative == Obj(<<<<<<"a">>, Num(TRUE, 1, <<>>)>>>>)
\* {a: 2.5}
ValFraction == Obj(<<<<<<"a">>, Num(FALSE, 2, <<"5">>)>>>>)
\* {a: 'x'}
ValString == Obj(<<<<<<"a">>, Str(<<"x">>)>>>>)
\* {a: true}
ValTrue == Obj(<<<<<<"a">>, Bool(TRUE)>>>>)
\* {a: null}
ValNull == Obj(<<<<<<"a">>, Null>>>>)
\* {a: [1, 2]}
ValFlatList == Obj(<<<<<<"a">>, Arr(<<IntNum(1), IntNum(2)>>)>>>>)
\* {a: []}
ValEmptyList == Obj(<<<<<<"a">>, Arr(<<>>)>>>>)
\* {a: {}}
ValEmptyObject == Obj(<<<<<<"a">>, Obj(<<>>)>>>>)
\* {a: [], b: {}}
ValEmptyBoth == Obj(<<<<<<"a">>, Arr(<<>>)>>, <<<<"b">>, Obj(<<>>)>>>>)
\* {d: {a: [], b: {}}}
ValEmptyBothNested == Obj(<<<<<<"d">>, Obj(<<<<<<"a">>, Arr(<<>>)>>, <<<<"b">>, Obj(<<>>)>>>>)>>>>)
\* {u: [{i: 1, n: 'a'}, {i: 2, n: 'b'}]}
ValUsers == Obj(<<<<<<"u">>, Arr(<<Obj(<<<<<<"i">>, IntNum(1)>>, <<<<"n">>, Str(<<"a">>)>>>>), Obj(<<<<<<"i">>, IntNum(2)>>, <<<<"n">>, Str(<<"b">>)>>>>)>>)>>>>)
\* {d: {x: 1, y: [1, 2], z: 3}}
ValNested == Obj(<<<<<<"d">>, Obj(<<<<<<"x">>, IntNum(1)>>, <<<<"y">>, Arr(<<IntNum(1), IntNum(2)>>)>>, <<<<"z">>, IntNum(3)>>>>)>>>>)
\* 5: a scalar at the root
ValScalarRoot == IntNum(5)
\* [1, 2]: a list at the root
ValListRoot == Arr(<<IntNum(1), IntNum(2)>>)
\* {a: "it's"}: a string holding a quote
ValQuote == Obj(<<<<<<"a">>, Str(<<"i", "t", "'", "s">>)>>>>)
\* {a: [[1], [2]]}
ValListOfLists == Obj(<<<<<<"a">>, Arr(<<Arr(<<IntNum(1)>>), Arr(<<IntNum(2)>>)>>)>>>>)
\* {a: false}
ValFalse == Obj(<<<<<<"a">>, Bool(FALSE)>>>>)
\* {d: {a: {b: 1}}}
ValObjectInObject == Obj(<<<<<<"d">>, Obj(<<<<<<"a">>, Obj(<<<<<<"b">>, IntNum(1)>>>>)>>>>)>>>>)
\* {u: [{a: 1}, {b: 2, c: 3}, 5]}: list elements of different shapes
ValMixedList == Obj(<<<<<<"u">>, Arr(<<Obj(<<<<<<"a">>, IntNum(1)>>>>),
                                      Obj(<<<<<<"b">>, IntNum(2)>>, <<<<"c">>, IntNum(3)>>>>), IntNum(5)>>)>>>>)
\* {a: {length: 0}}: an object with an own property `length` holding 0
ValLengthZero == Obj(<<<<<<"a">>, Obj(<<<<<<"l", "e", "n", "g", "t", "h">>, IntNum(0)>>>>)>>>>)
\* 'x': a string at the root
ValStringRoot == Str(<<"x">>)
\* {a: 1, b: undefined}
ValUndefinedField == Obj(<<<<<<"a">>, IntNum(1)>>, <<<<"b">>, Undef>>>>)
\* {u: [{i: undefined}, {i: 2}]}
ValUndefinedDeep == Obj(<<<<<<"u">>, Arr(<<Obj(<<<<<<"i">>, Undef>>>>), Obj(<<<<<<"i">>, IntNum(2)>>>>)>>)>>>>)

Values == {ValLeaf, ValTwoKeys, ValNegative, ValFraction, ValString,
           ValTrue, ValNull, ValFlatList, ValEmptyList, ValEmptyObject,
           ValEmptyBoth, ValEmptyBothNested, ValUsers, ValNested, ValScalarRoot,
           ValListRoot, ValQuote, ValListOfLists, ValFalse, ValObjectInObject,
           ValMixedList, ValLengthZero, ValUndefinedField, ValUndefinedDeep,
           ValStringRoot}

\* stringify's options: {indent, colorize}
OptionSet == {Opts(i, c) : i \in {0, 2}, c \in {FALSE, TRUE}}

\* the texts given to parse on an instance that is used again after a call
\* threw
ReuseTexts == {TxtLeaf, TxtNoColon, TxtNoSchemaAtDepth, TxtNoComma, TxtTooDeep, TxtOpenString,
               TxtNested, TxtTight, TxtTrailing, TxtKeysNoComma, TxtHalfOpen, TxtUsers,
               TxtSurplusNamed, TxtObjectThenScalar}

---------------------------------------------------------------------------
(* The state machine *)

Init ==
    /\ tokens = <<>>
    /\ position = 0
    /\ op = "init"
    /\ text = <<>>
    /\ startPos = 0
    /\ source = "input"
    /\ value = Undef
    /\ options = Opts(2, TRUE)
    /\ outcome = Ok(Undef)
    /\ recon = NoRecon

\* One run of the command-line tool decoding `input` (its decode
\* option): the process imports a new singleton, whose fields are
\* those of Init, and calls hron.parse(input) on it once.
Decode(input, from) ==
    LET r == parse(input, <<>>, 0)
    IN  /\ tokens' = r.tokens
        /\ position' = r.position
        /\ op' = "parse"
        /\ text' = input
        /\ startPos' = 0
        /\ source' = from
        /\ outcome' = r.outcome
        /\ recon' = r.recon

\* decode of a text that comes from outside
DecodeInput ==
    \E input \in Texts :
        /\ Decode(input, "input")
        /\ value' = Undef
        /\ options' = Opts(2, TRUE)

\* decode of the string the preceding encode produced
DecodeEncoded ==
    /\ op = "stringify"
    /\ outcome.ok
    /\ Decode(outcome.val.s, "encode")
    /\ UNCHANGED <<value, options>>

\* One run of the command-line tool encoding a value: hron.stringify(object,
\* options) on a new singleton; stringify reads and writes no field.
Encode ==
    \E object \in Values, opts \in OptionSet :
        /\ op' = "stringify"
        /\ value' = object
        /\ options' = opts
        /\ outcome' = stringify(object, opts)
        /\ text' = <<>>
        /\ startPos' = 0
        /\ source' = "input"
        /\ recon' = NoRecon
        /\ tokens' = <<>>
        /\ position' = 0

Next == DecodeInput \/ DecodeEncoded \/ Encode

Spec == Init /\ [][Next]_vars

\* hron.parse(input) on the one singleton of a process that keeps calling
\* it: the fields are those the previous call left
ParseAgain ==
    \E input \in ReuseTexts :
        LET r == parse(input, tokens, position)
        IN  /\ tokens' = r.tokens
            /\ position' = r.position
            /\ op' = "parse"
            /\ text' = input
            /\ startPos' = position
            /\ source' = "input"
            /\ outcome' = r.outcome
            /\ recon' = r.recon
            /\ UNCHANGED <<value, options>>

NextReuse == ParseAgain

SpecReuse == Init /\ [][NextReuse]_vars

---------------------------------------------------------------------------
(* Properties *)

\* structural equality of two values: objects are compared key by key,
\* whatever the order of their keys
RECURSIVE StructEq(_, _)
StructEq(a, b) ==
    IF a.k # b.k THEN FALSE
    ELSE IF a.k = "arr" THEN
        /\ Len(a.items) = Len(b.items)
        /\ \A i \in 1..Len(a.items) : StructEq(a.items[i], b.items[i])
    ELSE IF a.k = "obj" THEN
        /\ Len(a.fields) = Len(b.fields)
        /\ \A i \in 1..Len(a.fields) : \E j \in 1..Len(b.fields) :
              a.fields[i][1] = b.fields[j][1] /\ StructEq(a.fields[i][2], b.fields[j][2])
    ELSE a = b

\* whether text s holds the two characters c1 c2 next to each other
HoldsPair(s, c1, c2) == \E i \in 1..(Len(s) - 1) : s[i] = c1 /\ s[i + 1] = c2

\* what parse does with `input` on a new instance
Fresh(input) == parse(input, <<>>, 0).outcome

\* C1: round trip.  stringify(v, {indent: 0}) succeeds, and parse of the
\* string it returned succeeds with a value structurally equal to v.
RoundTrip ==
    /\ (op = "stringify" /\ options.indent = 0) => outcome.ok
    /\ (op = "parse" /\ source = "encode" /\ options.indent = 0) => (outcome.ok /\ StructEq(outcome.val, value))

\* C2: no cross-call memory.  Whatever calls came before on the same
\* instance, a parse call ends as the same call on a new instance does.
NoCrossCallMemory == op = "parse" => outcome = Fresh(text)

\* the value of field `name` of object v; undefined when v has none
Get(v, name) ==
    IF v.k = "obj" /\ \E i \in 1..Len(v.fields) : v.fields[i][1] = name
    THEN v.fields[CHOOSE i \in 1..Len(v.fields) : v.fields[i][1] = name][2]
    ELSE Undef

\* whether no scalar among the first m of a document rotated by r is `true`
NoTrue(r, m) == \A i \in 0..(m - 1) : ScalarAt(r, i).val # Bool(TRUE)

\* the list decoded for field u, and the place (0-based) among the data
\* entries of child j of object i of the list
CycledList(wrapped) == IF wrapped THEN Get(Get(outcome.val, <<"d">>), <<"u">>) ELSE Get(outcome.val, <<"u">>)
ChildEntry(k, i, j, wrapped) == (IF wrapped THEN 1 ELSE 0) + 1 + (i - 1) * (k + 1) + j

ParentEntry(entries, i) ==
    LET above == {j \in 0..(i - 1) : entries[j + 1].level = entries[i + 1].level - 1}
    IN  IF above = {} THEN -1 ELSE CHOOSE j \in above : \A m \in above : m <= j
UnderList(entries, i) == ParentEntry(entries, i) # -1 /\ entries[ParentEntry(entries, i) + 1].type = "List"

MismatchInList ==
    (op = "parse" /\ text \in {TxtScalarInObjectList, TxtObjectThenScalar}) =>
        (~outcome.ok /\ outcome.err = "SchemaMismatch")

\* C6: exhaustion detection.  With more children in a data object than its
\* schema object declares fields, parse fails with an extra-values error
\* that reports the number of surplus entries, which is 1 in both documents.
ExhaustionDetected ==
    (op = "parse" /\ text \in {TxtSurplus, TxtSurplusNamed}) => outcome = ErrN("ExtraValues", 1)

\* the part of an encoded text after the header and its ": "
ValuePart(s) == JsSlice(s, IndexOf(s, ":", 0) + 2, Len(s))

\* C7: empty containers.  stringify of a value holding an empty list and an
\* empty object as field values succeeds and renders them as [] and {}, and
\* parse of that string gives the value back.
EmptyContainers ==
    /\ (op = "stringify" /\ value \in {ValEmptyBoth, ValEmptyBothNested}) =>
          /\ outcome.ok
          /\ HoldsPair(ValuePart(outcome.val.s), "[", "]")
          /\ HoldsPair(ValuePart(outcome.val.s), "{", "}")
    /\ (op = "parse" /\ source = "encode" /\ value \in {ValEmptyBoth, ValEmptyBothNested}) =>
          (outcome.ok /\ StructEq(outcome.val, value))

\* the texts whitespace and comments may be inserted as
Fillers == {<<" ">>, <<"\t">>, <<"\r">>, <<"\n">>, <<"#", "c", "\n">>}

\* `input` with filler w inserted at offset p (0-based), and with the
\* characters [from, to) removed
InsertAt(input, p, w) == SubSeq(input, 1, p) \o w \o SubSeq(input, p + 1, Len(input))
RemoveSpan(input, from, to) == SubSeq(input, 1, from) \o SubSeq(input, to + 1, Len(input))

\* every text got from `input` by inserting one filler right after a token
\* that has a token after it
GapInsertions(input) ==
    LET lexed == tokenize(input)
    IN  {InsertAt(input, lexed.spans[i][2], w) : i \in 1..(Len(lexed.spans) - 1), w \in Fillers}

\* every text got from `input` by removing one whitespace character or one
\* whole comment that the lexer skipped between the first and the last token
GapRemovals(input) ==
    LET lexed == tokenize(input)
        n == Len(lexed.spans)
        between == {i \in 1..Len(lexed.skips) :
                        n > 0 /\ lexed.skips[i][2] >= lexed.spans[1][2] /\ lexed.skips[i][3] <= lexed.spans[n][1]}
    IN  {RemoveSpan(input, lexed.skips[i][2], lexed.skips[i][3]) : i \in between}

\* C8: whitespace and comment invariance.  Once parse accepted a text, the
\* text with whitespace or a comment line inserted or removed between two
\* adjacent tokens is parsed to the same outcome.
WhitespaceInvariance ==
    (op = "parse" /\ outcome.ok) =>
        \A other \in GapInsertions(text) \cup GapRemovals(text) : Fresh(other) = outcome

\* the error kinds the codec declares for decoding
DeclaredErrors == {"UnterminatedString", "UnexpectedCharacter", "UnexpectedEndOfInput",
                   "UnexpectedToken", "SchemaMismatch", "ExtraValues"}

\* C9: every failing parse fails with one of the declared error kinds, never
\* through a runtime fault.
DeclaredErrorsOnly == (op = "parse" /\ ~outcome.ok) => outcome.err \in DeclaredErrors

\* C10: with indent 0 the string stringify returns holds no newline.
CollapsedAtIndentZero ==
    (op = "stringify" /\ options.indent = 0 /\ outcome.ok) =>
        \A i \in 1..Len(outcome.val.s) : outcome.val.s[i] # "\n"

\* the name of the header's root key node: the identifier the text starts
\* with, the empty string when it starts with a bracket
HeaderRootName(input) ==
    IF tokenize(input).tokens[1].type = "IDENT" THEN tokenize(input).tokens[1].value.s ELSE <<>>

\* whether value v is what buildObject makes of data entry e: an object for
\* an Object, an array for a List, the entry's own value for a scalar
MadeOf(v, e) ==
    IF e.type = "Object" THEN v.k = "obj"
    ELSE IF e.type = "List" THEN v.k = "arr"
    ELSE v = e.value

LeafLiterals == {[text |-> TxtString, type |-> "String"], [text |-> TxtLeaf, type |-> "Number"],
                 [text |-> TxtFalse, type |-> "Boolean"], [text |-> TxtNull, type |-> "Null"]}

\* C12: a value block may be any one literal, null included.  Each of
\* a: 'x', a: 1, a: false and a: null is accepted, and the value block holds
\* exactly one data node, a scalar of the literal's kind.
LiteralValueBlock ==
    \A lit \in LeafLiterals :
        (op = "parse" /\ text = lit.text) =>
            /\ outcome.ok
            /\ Len(recon.entries) = 1
            /\ recon.entries[1].type = lit.type

\* whether offset p (0-based) lies in [span[1], span[2]), and how many of the
\* token spans and of the skipped stretches of a lexing hold p
Within(p, from, to) == from <= p /\ p < to
TokensAt(lexed, p) == Cardinality({i \in 1..Len(lexed.spans) : Within(p, lexed.spans[i][1], lexed.spans[i][2])})
SkipsAt(lexed, p) == Cardinality({i \in 1..Len(lexed.skips) : Within(p, lexed.skips[i][2], lexed.skips[i][3])})

\* whether a skipped stretch of `input` is one whitespace character, or a
\* comment: from a # up to and including the first line feed after it, or up
\* to the end of the input when none follows
IsSkip(input, skip) ==
    IF skip[1] = "ws" THEN skip[3] = skip[2] + 1 /\ isWhitespace(input[skip[2] + 1])
    ELSE /\ input[skip[2] + 1] = "#"
         /\ \A p \in skip[2]..(skip[3] - 2) : input[p + 1] # "\n"
         /\ skip[3] = Len(input) \/ input[skip[3]] = "\n"

\* whether token tok is the token of the characters [from, to) of `input`
IsTokenOf(input, tok, from, to) ==
    LET chars == SubSeq(input, from + 1, to)
    IN  /\ from < to /\ to <= Len(input)
        /\ \/ tok.type = "SYMBOL" /\ to = from + 1 /\ chars[1] \in validSymbols /\ tok.value = Str(chars)
           \/ /\ tok.type = "STRING" /\ to >= from + 2
              /\ isQuote(chars[1]) /\ chars[Len(chars)] = chars[1]
              /\ tok.value = Str(SubSeq(chars, 2, Len(chars) - 1))
           \/ tok.type = "NUMBER" /\ (\A i \in 1..Len(chars) : isDigit(chars[i])) /\ tok.value = NumberOf(chars)
           \/ /\ tok.type \in {"IDENT", "BOOL", "NULL"}
              /\ isLetter(chars[1]) /\ \A i \in 1..Len(chars) : isLetterDigit(chars[i])
              /\ tok = (IF isBool(chars) THEN createBoolToken(chars = <<"t", "r", "u", "e">>)
                        ELSE IF isNull(chars) THEN createNullToken ELSE createIdentToken(chars))

\* what C13 says of one lexing of `input`
Covered(input, lexed) ==
    IF lexed.err = "" THEN
        /\ Len(lexed.tokens) = Len(lexed.spans)
        /\ \A i \in 1..Len(lexed.spans) : IsTokenOf(input, lexed.tokens[i], lexed.spans[i][1], lexed.spans[i][2])
        /\ \A i \in 1..(Len(lexed.spans) - 1) : lexed.spans[i][2] <= lexed.spans[i + 1][1]
        /\ \A i \in 1..Len(lexed.skips) : IsSkip(input, lexed.skips[i])
        /\ \A p \in 0..(Len(input) - 1) : TokensAt(lexed, p) + SkipsAt(lexed, p) = 1
    ELSE
        /\ lexed.err \in {"UnterminatedString", "UnexpectedCharacter"}
        /\ lexed.tokens = <<>>
        /\ lexed.at < Len(input)
        /\ tokenize(SubSeq(input, 1, lexed.at)).err = ""
        /\ lexed.err = "UnexpectedCharacter" =>
              LET char == input[lexed.at + 1]
              IN  ~(isWhitespace(char) \/ isComment(char) \/ char \in validSymbols
                    \/ isQuote(char) \/ isDigit(char) \/ isLetter(char))

\* C13: lexer coverage.  Where tokenize returns, the token spans and the
\* skipped stretches share out the text: every character lies in exactly one
\* token or one skipped stretch, the skipped stretches are whitespace
\* characters and comments, the spans are in document order, and each token
\* is the token of its span's characters.  Otherwise tokenize throws one of
\* the two lexical errors with no token returned; the position the error
\* reports has only lexed text before it, and for an unexpected character
\* the character there is one no rule takes.
LexerCoverage == op = "parse" => Covered(text, tokenize(text))

\* a text with tabs, a line break, a fraction and an open comment was lexed
LexerCoverageWitness ==
    /\ op = "parse" /\ text = TxtCommentEnd
    /\ Len(tokenize(text).tokens) = 3 /\ Len(tokenize(text).skips) = 5

\* a text was refused at a character no rule takes, after a comment, a
\* string and symbols were lexed
LexerRefusalReached ==
    /\ op = "parse" /\ text = TxtBadAfter
    /\ outcome = Err("UnexpectedCharacter") /\ tokenize(text).at = 13

\* the two quote characters
Quotes == {"'", "\""}

\* what C14 says of one lexing of `input`
StringsLexed(input, lexed) ==
    /\ lexed.err = "" =>
          /\ \A i \in 1..Len(lexed.spans) :
                LET from == lexed.spans[i][1]
                    to == lexed.spans[i][2]
                IN  input[from + 1] \in Quotes =>
                        /\ lexed.tokens[i].type = "STRING"
                        /\ to >= from + 2
                        /\ input[to] = input[from + 1]
                        /\ \A p \in (from + 1)..(to - 2) : input[p + 1] # input[from + 1]
                        /\ lexed.tokens[i].value = Str(SubSeq(input, from + 2, to - 1))
          /\ \A p \in 0..(Len(input) - 1) :
                (input[p + 1] \in Quotes /\ SkipsAt(lexed, p) = 0) =>
                    \E i \in 1..Len(lexed.spans) :
                        /\ Within(p, lexed.spans[i][1], lexed.spans[i][2])
                        /\ lexed.tokens[i].type = "STRING"
    /\ lexed.err = "UnterminatedString" =>
          /\ lexed.tokens = <<>>
          /\ input[lexed.at + 1] \in Quotes
          /\ \A p \in (lexed.at + 1)..(Len(input) - 1) : input[p + 1] # input[lexed.at + 1]
    /\ lexed.err = "UnexpectedCharacter" => input[lexed.at + 1] \notin Quotes

\* C14: string lexing.  A quote character, ' or ", met by the lexer starts a
\* String token whose literal is exactly the characters up to, and without,
\* the next occurrence of the same quote character, whatever they are; where
\* the same quote does not occur again, tokenize fails with the
\* unterminated-string error at that quote and returns no token.
StringLexing == op = "parse" => StringsLexed(text, tokenize(text))

\* a double-quoted string holding a single quote, a #, a comma and a space was
\* decoded with all four kept
StringLexingWitness ==
    /\ op = "parse" /\ text = TxtQuoted
    /\ outcome = Ok(Obj(<< <<<<"a">>, Str(<<"i", "'", "#", ",", " ", "s">>)>> >>))

\* a double-quoted string followed only by a single quote was refused
StringRefusalReached ==
    /\ op = "parse" /\ text = TxtOpenMixed
    /\ outcome = Err("UnterminatedString") /\ tokenize(text).at = 3

\* the part of an encoded text before its ": ": the schema string
SchemaPart(s) == JsSlice(s, 0, IndexOf(s, ":", 0))

\* value v with every list cut down to its element at index 0
RECURSIVE FirstOnly(_)
FirstOnly(v) ==
    IF v.k = "arr" THEN Arr([i \in 1..(IF Len(v.items) = 0 THEN 0 ELSE 1) |-> FirstOnly(v.items[i])])
    ELSE IF v.k = "obj" THEN Obj([i \in 1..Len(v.fields) |-> <<v.fields[i][1], FirstOnly(v.fields[i][2])>>])
    ELSE v

\* values and the schema strings they are to give
SchemaExamples == {
    [value |-> ValUsers, schema |-> <<"u", "[", "{", "i", ",", "n", "}", "]">>],
    [value |-> ValNested, schema |-> <<"d", "{", "x", ",", "y", "[", "]", ",", "z", "}">>],
    [value |-> ValMixedList, schema |-> <<"u", "[", "{", "a", "}", "]">>],
    [value |-> ValListOfLists, schema |-> <<"a", "[", "[", "]", "]">>],
    [value |-> ValObjectInObject, schema |-> <<"d", "{", "a", "{", "b", "}", "}">>],
    [value |-> ValTwoKeys, schema |-> <<"a", ",", "b">>] }

\* C15: schema emitter.  The schema string of what stringify returns is the
\* schema string it returns for the value with every list cut down to its
\* element at index 0, so elements at index >= 1 have no part in it; field
\* names are comma-joined inside {} in key order and a list gives
\* name[<schema of element 0>].
SchemaFromFirstElement ==
    (op = "stringify" /\ outcome.ok) =>
        /\ stringify(FirstOnly(value), options).ok
        /\ SchemaPart(outcome.val.s) = SchemaPart(stringify(FirstOnly(value), options).val.s)
        /\ \A ex \in SchemaExamples : value = ex.value => SchemaPart(outcome.val.s) = ex.schema

\* a list whose elements have three different shapes was encoded
SchemaFromFirstElementWitness ==
    /\ op = "stringify" /\ value = ValMixedList /\ outcome.ok
    /\ FirstOnly(value) # value

\* a string without its spaces and newlines
Squeeze(s) == SelectSeq(s, LAMBDA c : c \notin {" ", "\n"})

\* the rendering of a value tree: every element of a list inside [ ], every
\* field value of an object inside { }, comma-separated and in order, a
\* string in single quotes, any other scalar as its literal text
RECURSIVE Rendered(_)
Rendered(v) ==
    IF v.k = "arr" THEN <<"[">> \o Join([i \in 1..Len(v.items) |-> Rendered(v.items[i])], <<",">>) \o <<"]">>
    ELSE IF v.k = "obj" THEN <<"{">> \o Join([i \in 1..Len(v.fields) |-> Rendered(v.fields[i][2])], <<",">>) \o <<"}">>
    ELSE IF v.k = "str" THEN <<"'">> \o v.s \o <<"'">>
    ELSE StringOf(v)

\* the rendering of the root, whose own bracket pair is omitted
RenderedRoot(v) ==
    IF v.k \in {"arr", "obj"} THEN SubSeq(Rendered(v), 2, Len(Rendered(v)) - 1) ELSE Rendered(v)

\* C16: value emitter.  Without its spaces and newlines, what stringify
\* returns is its schema string, a colon, and the rendering of the whole
\* value tree (every list element and every field value, in order) with the
\* root's own bracket pair omitted.
ValuesRendered ==
    (op = "stringify" /\ outcome.ok) =>
        Squeeze(outcome.val.s) =
            Squeeze(SchemaPart(outcome.val.s)) \o <<":">> \o Squeeze(RenderedRoot(value))

\* ValuesRendered for every value but the two kinds on which it fails: a
\* root that is a scalar and an object holding a property `length` of 0
ValuesRenderedElsewhere ==
    (op = "stringify" /\ outcome.ok /\ value \notin {ValScalarRoot, ValStringRoot, ValLengthZero}) =>
        Squeeze(outcome.val.s) =
            Squeeze(SchemaPart(outcome.val.s)) \o <<":">> \o Squeeze(RenderedRoot(value))

\* deriving the schema string of v reaches a value that is undefined or
\* absent: v itself, a field value of an object reached, or element 0 of a
\* list reached
RECURSIVE ReachesUndefined(_)
ReachesUndefined(v) ==
    IF v.k = "undef" THEN TRUE
    ELSE IF v.k = "arr" THEN Len(v.items) = 0 \/ ReachesUndefined(v.items[1])
    ELSE IF v.k = "obj" THEN \E i \in 1..Len(v.fields) : ReachesUndefined(v.fields[i][2])
    ELSE FALSE

\* C17: stringify of a value whose schema derivation reaches an undefined or
\* absent field value fails with the schema emitter's error and returns no
\* string.
UndefinedKeyRefused ==
    (op = "stringify" /\ ReachesUndefined(value)) =>
        /\ ~outcome.ok
        /\ outcome.val = Undef
        /\ outcome.err = "UndefinedKey"

\* a value holding an undefined field inside a list element was refused
UndefinedKeyRefusedWitness ==
    /\ op = "stringify" /\ value = ValUndefinedDeep
    /\ ~outcome.ok /\ outcome.err = "UndefinedKey"

\* the log entry m records a read of a schema entry for a data entry: the
\* data entry is of the kind and level logged and buildObject was given a
\* schema entry of the name, kind and level logged
MatchOf(m) ==
    /\ m.index + 1 \in 1..Len(recon.entries)
    /\ recon.entries[m.index + 1].type = m.valueType
    /\ recon.entries[m.index + 1].level = m.level
    /\ \E k \in 1..Len(recon.keys) :
          recon.keys[k].name = m.name /\ recon.keys[k].type = m.keyType /\ recon.keys[k].level = m.level

\* the data entry of log entry m was declared a List or an Object and is of
\* another kind
Mismatched(m) == m.keyType \in {"List", "Object"} /\ m.valueType # m.keyType

\* C18: type-mismatch check for named fields.  A data entry under a data
\* object that the depth cursor matches to a schema entry of kind List or
\* Object, and that is of another kind, makes parse fail with the
\* type-mismatch error, whose message holds the field's name, the declared
\* kind and the actual kind; the entry is not attached and not consumed.
TypeMismatchRefused ==
    (op = "parse" /\ recon.reached) =>
        \A e \in 1..Len(recon.matched) :
            /\ MatchOf(recon.matched[e])
            /\ Mismatched(recon.matched[e]) =>
                  /\ ~outcome.ok /\ outcome.val = Undef /\ outcome.err = "SchemaMismatch"
                  /\ recon.mismatch = {[level |-> recon.matched[e].level, name |-> recon.matched[e].name,
                                        expects |-> recon.matched[e].keyType, got |-> recon.matched[e].valueType]}
                  /\ \A n \in 1..Len(recon.named) : recon.named[n][1] # recon.matched[e].index
                  /\ recon.valueIndex = recon.matched[e].index
                  /\ e = Len(recon.matched)

\* the second object of a list gave a number for a field declared a list,
\* after the first object's list was attached under that field
TypeMismatchRefusedWitness ==
    /\ op = "parse" /\ text = TxtMismatchSecond /\ outcome.err = "SchemaMismatch"
    /\ Len(recon.matched) = 3 /\ Len(recon.named) = 2
    /\ recon.mismatch = {[level |-> 3, name |-> <<"a">>, expects |-> "List", got |-> "Number"]}

\* the four kinds of mismatch were refused: a list for an object, an object
\* for a list, a number for a list, a number for an object
TypeMismatchKinds ==
    \/ text = TxtListForObject /\ recon.mismatch = {[level |-> 1, name |-> <<"o">>, expects |-> "Object", got |-> "List"]}
    \/ text = TxtObjectForList /\ recon.mismatch = {[level |-> 2, name |-> <<"a">>, expects |-> "List", got |-> "Object"]}
    \/ text = TxtScalarForList /\ recon.mismatch = {[level |-> 2, name |-> <<"a">>, expects |-> "List", got |-> "Number"]}
    \/ text = TxtObjectForLeaf /\ recon.mismatch = {[level |-> 1, name |-> <<"a">>, expects |-> "Object", got |-> "Number"]}

\* the walk over the schema entries ran to its end: the while loop of every
\* schema entry finished
WalkEnded == recon.reached /\ Len(recon.spans) = Len(recon.keys)

\* the data entries that no schema entry's loop consumed
Unconsumed ==
    {i \in 0..(Len(recon.entries) - 1) :
        \A e \in 1..Len(recon.spans) : ~(recon.spans[e].from <= i /\ i < recon.spans[e].to)}

\* C19: exhaustion check.  When the walk over all schema entries ends with
\* data entries unconsumed, parse fails with the extra-values error, whose
\* count is the number of unconsumed entries; parse returns a value only if
\* every data entry was consumed.
ExhaustionCount ==
    (op = "parse" /\ recon.reached) =>
        /\ (WalkEnded /\ recon.valueIndex < Len(recon.entries)) =>
              /\ ~outcome.ok /\ outcome.val = Undef /\ outcome.err = "ExtraValues"
              /\ outcome.n = Len(recon.entries) - recon.valueIndex
              /\ outcome.n = Cardinality(Unconsumed)
        /\ outcome.ok => (WalkEnded /\ recon.valueIndex = Len(recon.entries) /\ Unconsumed = {})

\* a list of lists under a schema of depth 1: the walk ended with two of the
\* four data entries unconsumed
ExhaustionCountWitness ==
    /\ op = "parse" /\ text = TxtTooDeepTwo /\ WalkEnded
    /\ Len(recon.entries) = 4 /\ recon.valueIndex = 2
    /\ outcome = ErrN("ExtraValues", 2)

\* the spans of the schema entries' loops follow one another from data
\* entry 0, each logged for its schema entry
SpansInOrder ==
    \A e \in 1..Len(recon.spans) :
        /\ recon.spans[e].key = e
        /\ recon.spans[e].level = recon.keys[e].level
        /\ recon.spans[e].from = (IF e = 1 THEN 0 ELSE recon.spans[e - 1].to)
        /\ recon.spans[e].from <= recon.spans[e].to

\* C20: interleaved consumption bound.  Data entries are consumed in
\* document order, each once at most; a data entry consumed at a schema
\* entry of depth d is of depth <= d + 1; and the loop of a schema entry
\* stops at the first data entry of depth > d + 1 (or at the last entry).
InterleavedConsumption ==
    (op = "parse" /\ recon.reached) =>
        /\ Len(recon.consumed) = recon.valueIndex
        /\ recon.valueIndex <= Len(recon.entries)
        /\ \A c \in 1..Len(recon.consumed) :
              /\ recon.consumed[c].index = c - 1
              /\ recon.entries[c].level <= recon.consumed[c].level + 1
        /\ SpansInOrder
        /\ \A e \in 1..Len(recon.spans) :
              /\ \A i \in (recon.spans[e].from + 1)..recon.spans[e].to :
                    recon.consumed[i].level = recon.spans[e].level
              /\ \/ recon.spans[e].to = Len(recon.entries)
                 \/ recon.entries[recon.spans[e].to + 1].level > recon.spans[e].level + 1

\* in d{x,y[],z}: {1,[1,2],3} the loop of d, at depth 1, consumed three
\* entries and stopped at the first of depth 3, and the loop of x consumed the
\* other three
InterleavedConsumptionWitness ==
    /\ op = "parse" /\ text = TxtNested /\ outcome.ok
    /\ Len(recon.spans) = 4
    /\ recon.spans[1] = [key |-> 1, level |-> 1, from |-> 0, to |-> 3]
    /\ recon.entries[4].level = 3
    /\ recon.spans[2] = [key |-> 2, level |-> 2, from |-> 3, to |-> 6]
    /\ recon.spans[4].from = 6 /\ recon.spans[4].to = 6

\* a stack of buildObject as the discipline wants it: not empty, the root
\* entry (level 0, node 1) at the bottom, levels strictly increasing upwards
Disciplined(stack) ==
    /\ stack # <<>>
    /\ stack[1] = [level |-> 0, node |-> 1]
    /\ \A i \in 1..(Len(stack) - 1) : stack[i].level < stack[i + 1].level

\* C21: stack discipline.  Throughout buildObject the schema stack and the
\* data stack are never empty, keep the root entry at the bottom and have
\* strictly increasing levels; an entry of level L is attached to the node of
\* the nearest stacked entry of level < L, after every entry of level >= L
\* was popped; the "no parent available" guard is never reached.
StackDiscipline ==
    (op = "parse" /\ recon.reached) =>
        /\ outcome.err # "NoParent"
        /\ \A t \in 1..Len(recon.trail) :
              /\ Disciplined(recon.trail[t].before)
              /\ Disciplined(recon.trail[t].popped)
              /\ Disciplined(recon.trail[t].after)
              /\ recon.trail[t].level >= 1
              /\ recon.trail[t].popped =
                    SelectSeq(recon.trail[t].before, LAMBDA e : e.level < recon.trail[t].level)
              /\ recon.trail[t].parent = recon.trail[t].popped[Len(recon.trail[t].popped)].node
              /\ \/ recon.trail[t].after = recon.trail[t].popped
                 \/ /\ recon.trail[t].slot.k = "ref"
                    /\ recon.trail[t].after =
                          Append(recon.trail[t].popped,
                                 [level |-> recon.trail[t].level, node |-> recon.trail[t].slot.id])

\* in d{x,y[],z}: {1,[1,2],3} the data stack held the root, the object and
\* the list when the 3 came, which popped the list and was attached to the
\* object
StackDisciplineWitness ==
    /\ op = "parse" /\ text = TxtNested /\ outcome.ok
    /\ \E t \in 1..Len(recon.trail) :
          /\ recon.trail[t].side = "value" /\ recon.trail[t].level = 2
          /\ Len(recon.trail[t].before) = 3 /\ Len(recon.trail[t].popped) = 2
          /\ recon.trail[t].slot = IntNum(3) /\ recon.trail[t].attached
    /\ \E t \in 1..Len(recon.trail) :
          /\ recon.trail[t].side = "key" /\ Len(recon.trail[t].before) = 3
          /\ Len(recon.trail[t].popped) = 2

\* the data entry that holds data entry i (both 0-based): the nearest
\* earlier entry one level up; -1 for an entry of level 1
DataParent(i) ==
    LET ups == {j \in 0..(i - 1) : recon.entries[j + 1].level = recon.entries[i + 1].level - 1}
    IN  IF ups = {} THEN -1 ELSE CHOOSE j \in ups : \A k \in ups : k <= j

\* the place of data entry i among the children of its parent, from 0
DataPlace(i) ==
    Cardinality({j \in (DataParent(i) + 1)..(i - 1) : recon.entries[j + 1].level = recon.entries[i + 1].level})

\* the schema entries (1-based) declared directly inside schema entry g, in
\* order
SchemaChildren(g) ==
    LET ends == {j \in (g + 1)..Len(recon.keys) : recon.keys[j].level <= recon.keys[g].level}
        last == IF ends = {} THEN Len(recon.keys) ELSE (CHOOSE j \in ends : \A k \in ends : j <= k) - 1
    IN  SelectSeq([j \in 1..(last - g) |-> g + j], LAMBDA j : recon.keys[j].level = recon.keys[g].level + 1)

\* the schema entry that governs data entry i, 0 when there is none: the
\* root schema entry for the root data entry, the field at the same place
\* for a child of a data object governed by a schema object, the element
\* schema for an element of a data list governed by a schema list
RECURSIVE Governor(_)
Governor(i) ==
    IF recon.entries[i + 1].level = 1 THEN (IF i = 0 THEN 1 ELSE 0)
    ELSE LET p == DataParent(i)
             g == Governor(p)
             kind == recon.entries[p + 1].type
         IN  IF p < 0 \/ g = 0 THEN 0
             ELSE IF recon.keys[g].type # kind THEN 0
             ELSE IF kind = "Object" THEN
                 (IF DataPlace(i) < Len(SchemaChildren(g)) THEN SchemaChildren(g)[DataPlace(i) + 1] ELSE 0)
             ELSE IF kind = "List" THEN
                 (IF Len(SchemaChildren(g)) > 0 THEN SchemaChildren(g)[1] ELSE 0)
             ELSE 0

\* C22: field-list governance.  The name under which a data entry is stored
\* in a data object is the name of the field at the same place in the schema
\* object that governs that data object.
FieldListGovernance ==
    (op = "parse" /\ recon.reached) =>
        \A n \in 1..Len(recon.named) :
            (/\ DataParent(recon.named[n][1]) >= 0
             /\ recon.entries[DataParent(recon.named[n][1]) + 1].type = "Object"
             /\ Governor(recon.named[n][1]) # 0)
            => recon.named[n][2] = recon.keys[Governor(recon.named[n][1])].name

\* FieldListGovernance on every document but the two whose data objects hold
\* fewer fields than their schema declares
FieldListGovernanceFull ==
    (op = "parse" /\ recon.reached /\ text \notin {TxtFewerFields, TxtTwoContainers}) =>
        \A n \in 1..Len(recon.named) :
            (/\ DataParent(recon.named[n][1]) >= 0
             /\ recon.entries[DataParent(recon.named[n][1]) + 1].type = "Object"
             /\ Governor(recon.named[n][1]) # 0)
            => recon.named[n][2] = recon.keys[Governor(recon.named[n][1])].name

\* the scalar tokens of the text given to parse, and the scalar data
\* entries buildObject was given, both in document order
ScalarTokens == SelectSeq(tokenize(text).tokens, LAMBDA t : t.type \in {"STRING", "NUMBER", "BOOL", "NULL"})
ScalarEntries == SelectSeq(recon.entries, LAMBDA e : e.type \notin {"Object", "List"})

\* the kind of data node a scalar token is to give
KindOfToken(t) ==
    CASE t.type = "STRING" -> "String" [] t.type = "NUMBER" -> "Number"
      [] t.type = "BOOL" -> "Boolean" [] t.type = "NULL" -> "Null"

\* the entries are of the kinds of the tokens, one for one, and carry the
\* literals of those among them that `kept` holds
Carried(toks, ents, kept) ==
    /\ Len(ents) <= Len(toks)
    /\ \A i \in 1..Len(ents) :
          /\ ents[i].type = KindOfToken(toks[i])
          /\ toks[i].value \in kept => ents[i].value = toks[i].value

\* the literals of the scalar tokens
Literals(toks) == {toks[i].value : i \in 1..Len(toks)}

\* C23: scalar literals survive decoding.  Every scalar data node carries
\* the literal of its token: true gives boolean true, false gives false, a
\* string its text, a number its number and null gives null.
LiteralsSurvive ==
    (op = "parse" /\ recon.reached) =>
        Carried(ScalarTokens, ScalarEntries, Literals(ScalarTokens))

\* LiteralsSurvive for every literal but `true`
LiteralsSurviveButTrue ==
    (op = "parse" /\ recon.reached) =>
        Carried(ScalarTokens, ScalarEntries, Literals(ScalarTokens) \ {Bool(TRUE)})

\* the characters of a number
NumberChars == Digits \cup {"."}

\* in the lexing `lexed` of `input`, every token that begins at a character
\* of `starts` is one Number token for the maximal run of digits and points
\* that begins there
RunsLexed(input, lexed, starts) ==
    \A s \in 1..Len(lexed.spans) :
        input[lexed.spans[s][1] + 1] \in starts =>
            /\ lexed.tokens[s].type = "NUMBER"
            /\ \A i \in (lexed.spans[s][1] + 1)..lexed.spans[s][2] : input[i] \in NumberChars
            /\ \/ lexed.spans[s][2] = Len(input)
               \/ input[lexed.spans[s][2] + 1] \notin NumberChars
            /\ lexed.tokens[s].value = NumberOf(SubSeq(input, lexed.spans[s][1] + 1, lexed.spans[s][2]))

\* C24: number lexing.  At a cursor position holding a digit or a point,
\* tokenize consumes the maximal run of digits and points that begins there
\* and emits one Number token for it.
NumberLexing == (op = "parse") => RunsLexed(text, tokenize(text), NumberChars)

\* NumberLexing for the cursor positions that hold a digit
NumberLexingFromDigit == (op = "parse") => RunsLexed(text, tokenize(text), Digits)

\* documents with a bracket whose adjacent items no comma separates: a value
\* list and a key list
Commaless == {TxtNoComma, TxtKeysNoComma}

\* C25: commas are required.  A key list or value list whose adjacent items
\* are not separated by a comma is rejected by the parser with the
\* unexpected-token error.
CommaRequired ==
    (op = "parse" /\ text \in Commaless) =>
        /\ ~outcome.ok
        /\ outcome.err = "UnexpectedToken"

\* documents with one comma directly before a closing bracket, each beside
\* the document without it
TrailingCommas == {[with |-> TxtTrailingValue, without |-> TxtPlainValue],
                   [with |-> TxtTrailingKey, without |-> TxtPlainKey],
                   [with |-> TxtTrailingAll, without |-> TxtUsers]}

\* documents with an empty item
EmptyItems == {TxtTwoCommasValue, TxtLeadingCommaValue, TxtTwoTrailingValue, TxtTwoCommasKey,
               TxtLeadingCommaKey}

\* what parse made of the current text is what it makes of `plain`: the same
\* schema entries, the same data entries, the same outcome
SameTreeAs(plain) ==
    /\ outcome = plain.outcome
    /\ recon.keys = plain.recon.keys
    /\ recon.entries = plain.recon.entries

\* C26: trailing comma.  One comma directly before a closing bracket, of a
\* key list or of a value list, is accepted and gives the tree of the list
\* without it; an empty item is rejected.
TrailingComma ==
    /\ \A pair \in TrailingCommas :
          (op = "parse" /\ text = pair.with) =>
              /\ outcome.ok
              /\ SameTreeAs(parse(pair.without, <<>>, 0))
    /\ (op = "parse" /\ text \in EmptyItems) =>
          /\ ~outcome.ok
          /\ outcome.err = "UnexpectedToken"

\* the list of objects with a comma before each of its four closing brackets
\* was decoded
TrailingCommaWitness ==
    /\ op = "parse" /\ text = TxtTrailingAll /\ outcome.ok
    /\ Len(recon.entries) = 7

\* a document with two commas in a row was refused
EmptyItemRefused == op = "parse" /\ text = TxtTwoCommasValue /\ outcome.err = "UnexpectedToken"

\* s is enclosed in a matching bracket pair
Enclosed(s) == isStringObject(s) \/ isStringList(s)

\* s without its outermost matching bracket pair, s itself when it has none
Unbracketed(s) == IF Len(s) >= 2 /\ Enclosed(s) THEN SubSeq(s, 2, Len(s) - 1) ELSE s

\* what toHRON is to compose of the schema string and the value string
Composed(keys, values) == Unbracketed(keys.s) \o <<":", " ">> \o Unbracketed(values.s)

\* C27: compose.  toHRON removes from the schema string and from the value
\* string the outermost matching bracket pair and nothing else; a string not
\* enclosed in a matching bracket pair loses no character.
ComposeStripsBrackets ==
    (op = "stringify" /\ outcome.ok) =>
        outcome.val.s = Composed(objectToHRONKeys(value, NoName), objectToHRONValues(value, options, 0))

\* ComposeStripsBrackets for the values whose root is an object or a list
ComposeStripsBracketsOfContainers ==
    (op = "stringify" /\ outcome.ok /\ value.k \in {"obj", "arr"}) =>
        outcome.val.s = Composed(objectToHRONKeys(value, NoName), objectToHRONValues(value, options, 0))

\* values whose uncollapsed groups hold several children and no string
LaidOut == {ValTwoKeys, ValFlatList, ValNested}

\* every comma of s is followed by a newline
CommasBreak(s) == \A i \in 1..Len(s) : s[i] = "," => (i < Len(s) /\ s[i + 1] = "\n")

\* some line of s begins with n spaces
LineIndented(s, n) ==
    \E i \in 1..(Len(s) - n) : s[i] = "\n" /\ \A j \in 1..n : s[i + j] = " "

\* C28: layout with indent >= 1.  The value emitter succeeds, the children
\* of every group that is not collapsed are joined with a comma and a
\* newline, and a group below the root is indented by indent * depth spaces.
LayoutIndented ==
    (op = "stringify" /\ options.indent >= 1 /\ value \in LaidOut) =>
        /\ outcome.ok
        /\ objectToHRONValues(value, options, 0).err = ""
        /\ CommasBreak(ValuePart(outcome.val.s))
        /\ value = ValNested => LineIndented(ValuePart(outcome.val.s), options.indent)

\* the part of LayoutIndented that holds: the value emitter succeeds, on
\* every value without an undefined field
LayoutSucceeds ==
    (op = "stringify" /\ options.indent >= 1 /\ value \notin {ValUndefinedField, ValUndefinedDeep}) =>
        objectToHRONValues(value, options, 0).err = ""

\* the turns of the loop that `lexed` logs, as [from, to) offsets: one for
\* each token and one for each skip
Turns(lexed) ==
    {lexed.spans[s] : s \in 1..Len(lexed.spans)}
    \cup {<<lexed.skips[s][2], lexed.skips[s][3]>> : s \in 1..Len(lexed.skips)}

\* the lexing `lexed` of `input` ended: with tokens, after turns that each
\* moved the cursor forward, none past the end, from 0 to the end of the
\* input; or with a lexical error, at a character of the input
Total(input, lexed) ==
    IF lexed.err = "" THEN
        /\ lexed.at = Len(input)
        /\ Cardinality(Turns(lexed)) = Len(lexed.spans) + Len(lexed.skips)
        /\ \A t \in Turns(lexed) :
              /\ t[1] < t[2] /\ t[2] <= Len(input)
              /\ t[1] = 0 \/ \E u \in Turns(lexed) : u[2] = t[1]
              /\ t[2] = Len(input) \/ \E u \in Turns(lexed) : u[1] = t[2]
        /\ Len(input) > 0 => \E t \in Turns(lexed) : t[1] = 0
    ELSE
        /\ lexed.err \in {"UnterminatedString", "UnexpectedCharacter"}
        /\ lexed.tokens = <<>>
        /\ 0 <= lexed.at /\ lexed.at < Len(input)

\* C29: tokenize is total.  On every input it ends, with a token sequence or
\* with a lexical error; every turn of its loop moves the cursor forward,
\* and never past the end of the input.
TokenizeTotal == (op = "parse") => Total(text, tokenize(text))

\* a text with tabs, a line break, a number and a closing comment was lexed
\* to its end in eight turns
TokenizeTotalWitness ==
    /\ op = "parse" /\ text = TxtCommentEnd
    /\ tokenize(text).err = "" /\ tokenize(text).at = Len(text)
    /\ Len(tokenize(text).spans) = 3 /\ Len(tokenize(text).skips) = 5

\* a text was refused by the lexer at its fourteenth character
TokenizeRefusalReached ==
    /\ op = "parse" /\ text = TxtBadAfter
    /\ tokenize(text).err = "UnexpectedCharacter" /\ tokenize(text).at = 13

\* tokens to follow a document: a number, a string, an identifier, a
\* boolean, a closing and an opening bracket, two commas, a second document
Tails == { <<"2">>, <<"'", "s", "'">>, <<"x">>, <<"t", "r", "u", "e">>, <<"]">>, <<"{">>,
           <<",", ",">>, <<"b", ":", " ", "2">> }

\* the text followed, on a new line, by the tokens of `tail`
Followed(input, tail) == input \o <<"\n">> \o tail

=============================================================================
